---- MODULE Spec2Model ----
(***************************************************************************)
(* State-machine model of the askenzo_api backend: the relational store    *)
(* (tourists, hosts, experiences, discoveries, popup messages, likes), the *)
(* bearer-token authorization dependencies, the cursor pagination of the   *)
(* list endpoints and the like toggle.                                     *)
(***************************************************************************)
EXTENDS Integers, Sequences, FiniteSets, TLC

VARIABLES
    tourists,     \* rows of tourist_users: [id, email, password, state_id]
    hosts,        \* rows of host_users:    [id, email, password, state_id]
    experiences,  \* rows of experiences:   [id, title, state_id]
    discoveries,  \* rows of discoveries:   [id, title, video_paths, coordinate_gps, address,
                  \*                         state_id, kind_id]
    popups,       \* rows of popup_msg:     [id, text]
    likes,        \* tourist_user_likes: number of rows per <<tourist, experience>>
    seqs,         \* the store's id sequences, one per table
    issued,       \* payloads of the tokens handed out so far
    reqs,         \* toggle_like requests in flight, one per worker
    last,         \* bookkeeping of the latest consecutive toggles of one pair
    resp          \* the response of the latest request

vars == <<tourists, hosts, experiences, discoveries, popups, likes, seqs,
          issued, reqs, last, resp>>

content == <<experiences, discoveries, popups>>
accounts == <<tourists, hosts>>

-----------------------------------------------------------------------------
(* Bounds of the model. *)

MaxRows == 3        \* rows ever inserted, over all tables
MaxAccounts == 2    \* tourists and hosts ever registered
MaxLimit == 2       \* largest page size requested
MaxCursor == 3      \* largest cursor requested
MaxRequests == 2    \* toggle_like requests in flight at once

Ids == 1..MaxRows
AccountIds == 1..MaxAccounts
Limits == 1..MaxLimit                 \* Query(20, gt=0)
StateIdInputs == {-1, 0, 1, 2, 3}     \* state_id is any int of the payload
ValidStateIds == {1, 2}
KindInputs == {1, 2}
Categories == 1..4                    \* Query(1, ge=1, le=4)
Texts == {"", "ciao"}
PlainTexts == {"a"}
RichTexts == {"", "a", "b"}
Emails == {"a@x", "b@x"}
Passwords == {"pw1", "pw2"}
Workers == 1..MaxRequests

None == <<>>
Some(x) == <<x>>
Cursors == {None} \cup {Some(c) : c \in 0..MaxCursor}   \* Query(None, ge=0)

-----------------------------------------------------------------------------
(* utility/authentication_data.py *)

roles == <<"Admin", "Host", "Tourist">>
Role(i) == roles[i + 1]               \* Python's zero-based roles[i]
Roles == {roles[i] : i \in 1..Len(roles)}

HTTPException(code, text) == [ok |-> FALSE, status |-> code, detail |-> text]
Granted == [ok |-> TRUE, status |-> 200, detail |-> ""]

\* A bearer credential: a signed payload, or one whose signature, format or
\* validity window does not check.
BadTokens == {[valid |-> FALSE, role |-> r, user_id |-> 1] : r \in Roles}
Credentials == {[valid |-> TRUE, role |-> p.role, user_id |-> p.user_id] : p \in issued}
                   \cup BadTokens

create_jwt(payload) == [valid |-> TRUE, role |-> payload.role, user_id |-> payload.user_id]

is_jwt_valid(token) ==
    IF token.valid THEN Some([role |-> token.role, user_id |-> token.user_id])
    ELSE None

get_tourist_host_priviledge(token) ==
    LET payload_token == is_jwt_valid(token) IN
    IF payload_token # None
    THEN IF payload_token[1].role = Role(1) \/ payload_token[1].role = Role(2)
         THEN Granted
         ELSE HTTPException(401, "Unauthorized user.")
    ELSE HTTPException(401, "Incorrect token")

get_admin_priviledge_any_role(token) ==
    IF is_jwt_valid(token) # None THEN Granted ELSE HTTPException(401, "Incorrect token")

get_admin_priviledge_or_host(token) ==
    LET payload_token == is_jwt_valid(token) IN
    IF payload_token # None
    THEN IF payload_token[1].role \in {Role(0), Role(1)}
         THEN Granted
         ELSE HTTPException(401, "Unauthorized user.")
    ELSE HTTPException(401, "Incorrect token")

get_admin_priviledge(token) ==
    LET payload_token == is_jwt_valid(token) IN
    IF payload_token # None
    THEN IF payload_token[1].role = Role(0)
         THEN Granted
         ELSE HTTPException(401, "Unauthorized user.")
    ELSE HTTPException(401, "Incorrect token")

get_tourist_host_admin_priviledge(token) ==
    LET payload_token == is_jwt_valid(token) IN
    IF payload_token # None
    THEN IF \/ payload_token[1].role = Role(0)
            \/ payload_token[1].role = Role(1)
            \/ payload_token[1].role = Role(2)
         THEN Granted
         ELSE HTTPException(401, "Unauthorized user.")
    ELSE HTTPException(401, "Incorrect token")

-----------------------------------------------------------------------------
(* The query operators of the store. *)

RECURSIVE order_by_id(_)
order_by_id(rows) ==
    IF rows = {} THEN <<>>
    ELSE LET first == CHOOSE r \in rows : \A x \in rows : r.id <= x.id
         IN  <<first>> \o order_by_id(rows \ {first})

offset_ignored(rows, n) == rows
offset(rows, n) == SubSeq(rows, n + 1, Len(rows))
limit_(rows, n) == SubSeq(rows, 1, IF n < Len(rows) THEN n ELSE Len(rows))
first(rows) == IF rows = {} THEN None ELSE Some(CHOOSE r \in rows : TRUE)

Inserted == seqs.tourists + seqs.hosts + seqs.experiences + seqs.discoveries + seqs.popups

-----------------------------------------------------------------------------
(* crud.py: experiences, discoveries, popup messages *)

get_experience(experience_id) ==
    first({e \in experiences : e.id = experience_id})

crud_get_experiences_no_extra_row(cursor, limit) ==
    LET q == order_by_id({e \in experiences : e.state_id = 1}) IN
    IF cursor = None
    THEN limit_(q, limit)
    ELSE limit_(offset(q, cursor[1]), limit)

crud_get_experiences(cursor, limit) ==
    LET q == order_by_id({e \in experiences : e.state_id = 1}) IN
    IF cursor = None
    THEN limit_(q, limit + 1)
    ELSE limit_(offset(q, cursor[1]), limit + 1)

\* crud.get_discovery without its filter on the id.
crud_get_discovery_any(discovery_id) ==
    first(discoveries)

crud_get_discovery(discovery_id) ==
    first({d \in discoveries : d.id = discovery_id})

crud_get_discoveries(cursor, limit, category, all) ==
    LET list_category == IF ~all THEN {category} ELSE {1, 2, 3, 4}
        q == order_by_id({d \in discoveries :
                             d.state_id = 1 /\ d.kind_id \in list_category})
    IN  IF cursor = None
        THEN limit_(q, limit + 1)
        ELSE limit_(offset(q, cursor[1]), limit + 1)

get_single_popup(popup_id) ==
    first({p \in popups : p.id = popup_id})

get_popup_msg(cursor, limit) ==
    LET q == order_by_id(popups) IN
    IF cursor = None
    THEN limit_(q, limit + 1)
    ELSE limit_(offset(q, cursor[1]), limit + 1)

-----------------------------------------------------------------------------
(* The list endpoints: api_routers/experiences_api.py, discovery_api.py,   *)
(* popup_msg.py                                                            *)

NoPage == [cursor |-> None, has_more |-> FALSE, items |-> <<>>]

\* The body shared by the three endpoints: has_more from the extra row, the
\* page cut to limit rows, the cursor taken from the page's last row.
Page_cursor_of_fetched(rows, limit, missing) ==
    IF rows # <<>>
    THEN [status |-> 200, detail |-> "",
          body |-> [cursor |-> Some(rows[Len(rows)].id),
                    has_more |-> Len(rows) > limit,
                    items |-> limit_(rows, limit)]]
    ELSE [status |-> 404, detail |-> missing, body |-> NoPage]

\* The body of the endpoints answering an empty page instead of 404.
Page_empty(rows, limit, missing) ==
    [status |-> 200, detail |-> "",
     body |-> [cursor |-> IF rows # <<>> THEN Some(limit_(rows, limit)[Len(limit_(rows, limit))].id)
                          ELSE None,
               has_more |-> Len(rows) > limit,
               items |-> limit_(rows, limit)]]

Page(rows, limit, missing) ==
    IF rows # <<>>
    THEN LET has_more == Len(rows) > limit
             page == limit_(rows, limit)
         IN  [status |-> 200, detail |-> "",
              body |-> [cursor |-> IF page # <<>> THEN Some(page[Len(page)].id) ELSE None,
                        has_more |-> has_more,
                        items |-> page]]
    ELSE [status |-> 404, detail |-> missing, body |-> NoPage]

get_experiences(cursor, limit) ==
    Page(crud_get_experiences(cursor, limit), limit, "No experiences found.")

get_discoveries(cursor, limit, category, all) ==
    Page(crud_get_discoveries(cursor, limit, category, all), limit, "No discoveries found.")

get_msgs(cursor, limit) ==
    Page(get_popup_msg(cursor, limit), limit, "No popup messages found.")

NoResponse ==
    [op |-> "none", dep |-> "none",
     token |-> [valid |-> FALSE, role |-> Role(0), user_id |-> 0],
     auth |-> Granted, args |-> <<>>, status |-> 0, detail |-> "", body |-> NoPage,
     result |-> None]

\* Requests are served one at a time: a request is taken when the previous
\* response has been sent (database.get_db then closes the session).
Ready == resp.op = "none"

Reply ==
    /\ ~Ready
    /\ resp' = NoResponse
    /\ UNCHANGED <<accounts, content, likes, seqs, issued, reqs, last>>

\* A request refused by its authorization dependency never runs its handler.
\* dep names the dependency that guards the endpoint.
Refused(name, dep, token, a) ==
    [op |-> name, dep |-> dep, token |-> token, auth |-> a, args |-> <<>>,
     status |-> a.status, detail |-> a.detail, body |-> NoPage, result |-> None]

Answer(name, dep, token, a, args, r) ==
    [op |-> name, dep |-> dep, token |-> token, auth |-> a, args |-> args,
     status |-> r.status, detail |-> r.detail, body |-> r.body, result |-> None]

Ok == [status |-> 200, detail |-> "", body |-> NoPage]
Failed(code, text) == [status |-> code, detail |-> text, body |-> NoPage]

ListExperiences ==
    /\ Ready
    /\ \E token \in Credentials :
           LET a == get_tourist_host_admin_priviledge(token) IN
           IF ~a.ok
           THEN resp' = Refused("get_experiences", "any_of_three", token, a)
           ELSE \E cursor \in Cursors, limit \in Limits :
                    resp' = Answer("get_experiences", "any_of_three", token, a,
                                   [cursor |-> cursor, limit |-> limit],
                                   get_experiences(cursor, limit))
    /\ UNCHANGED <<accounts, content, likes, seqs, issued, reqs, last>>

ListDiscoveries ==
    /\ Ready
    /\ \E token \in Credentials :
           LET a == get_tourist_host_admin_priviledge(token) IN
           IF ~a.ok
           THEN resp' = Refused("get_discoveries", "any_of_three", token, a)
           ELSE \E cursor \in Cursors, limit \in Limits,
                   category \in Categories, all \in BOOLEAN :
                    resp' = Answer("get_discoveries", "any_of_three", token, a,
                                   [cursor |-> cursor, limit |-> limit,
                                    category |-> category, all |-> all],
                                   get_discoveries(cursor, limit, category, all))
    /\ UNCHANGED <<accounts, content, likes, seqs, issued, reqs, last>>

ListPopups ==
    /\ Ready
    /\ \E token \in Credentials :
           LET a == get_tourist_host_admin_priviledge(token) IN
           IF ~a.ok
           THEN resp' = Refused("get_msgs", "any_of_three", token, a)
           ELSE \E cursor \in Cursors, limit \in Limits :
                    resp' = Answer("get_msgs", "any_of_three", token, a,
                                   [cursor |-> cursor, limit |-> limit],
                                   get_msgs(cursor, limit))
    /\ UNCHANGED <<accounts, content, likes, seqs, issued, reqs, last>>

-----------------------------------------------------------------------------
(* api_routers/admin_api.py is not part of the sources at hand: the login  *)
(* of the administrator hands out a token whose role is Admin.             *)

AdminPayload == [role |-> Role(0), user_id |-> 0]

AdminLogin ==
    /\ Ready
    /\ issued' = issued \cup {AdminPayload}
    /\ resp' = Answer("login_admin", "none", create_jwt(AdminPayload), Granted, <<>>, Ok)
    /\ UNCHANGED <<accounts, content, likes, seqs, reqs, last>>

-----------------------------------------------------------------------------
(* Experiences: create, update, delete (api_routers/experiences_api.py)    *)

InvalidState == "state_id must be either 1 or 2."

\* Rows of tourist_user_likes that reference the experience, and the table
\* without them.
Referenced(experience_id) ==
    \E pair \in DOMAIN likes : pair[2] = experience_id /\ likes[pair] > 0

Detached(experience_id) ==
    [pair \in DOMAIN likes |-> IF pair[2] = experience_id THEN 0 ELSE likes[pair]]

\* crud.delete_experience: what becomes of the like rows that reference the
\* deleted row is decided by the store's schema (the delete is refused, or
\* the rows are detached from the experience).
delete_experience(experience_to_remove) ==
    IF Referenced(experience_to_remove.id)
    THEN {[ok |-> FALSE, experiences |-> experiences, likes |-> likes],
          [ok |-> TRUE, experiences |-> experiences \ {experience_to_remove},
           likes |-> Detached(experience_to_remove.id)]}
    ELSE {[ok |-> TRUE, experiences |-> experiences \ {experience_to_remove},
           likes |-> likes]}

\* The payload fields next to state_id: title stands for the text fields of
\* schemas.ExperienceBase, which the handlers treat alike.
ExperienceFields(titles) == [title : titles]

CreateExperience(state_ids, fields) ==
    /\ Ready
    /\ \E token \in Credentials :
           LET a == get_admin_priviledge(token) IN
           IF ~a.ok
           THEN /\ resp' = Refused("create_experience", "admin", token, a)
                /\ UNCHANGED <<experiences, seqs>>
           ELSE \E state_id \in state_ids, experience \in fields :
                    LET args == [title |-> experience.title, state_id |-> state_id] IN
                    IF state_id < 0 \/ state_id > 2
                    THEN /\ resp' = Answer("create_experience", "admin", token, a, args,
                                           Failed(400, InvalidState))
                         /\ UNCHANGED <<experiences, seqs>>
                    ELSE /\ Inserted < MaxRows
                         /\ experiences' = experiences \cup
                                {[id |-> seqs.experiences + 1, title |-> experience.title,
                                  state_id |-> state_id]}
                         /\ seqs' = [seqs EXCEPT !.experiences = @ + 1]
                         /\ resp' = Answer("create_experience", "admin", token, a, args, Ok)
    /\ UNCHANGED <<accounts, discoveries, popups, likes, issued, reqs, last>>

merge_experience_overwrite(experience, experience_data) ==
    [experience EXCEPT !.title = experience_data.title,
                       !.state_id = experience_data.state_id]

\* The field-by-field copy of experiences_api.update: a field of the payload
\* is copied when it is truthy.
merge_experience(experience, experience_data) ==
    LET with_title == IF experience_data.title # ""
                      THEN [experience EXCEPT !.title = experience_data.title]
                      ELSE experience
    IN  IF experience_data.state_id # 0
        THEN [with_title EXCEPT !.state_id = experience_data.state_id]
        ELSE with_title

UpdateExperience(state_ids, fields) ==
    /\ Ready
    /\ \E token \in Credentials :
           LET a == get_admin_priviledge(token) IN
           IF ~a.ok
           THEN /\ resp' = Refused("update_experience", "admin", token, a)
                /\ UNCHANGED experiences
           ELSE \E experience_id \in Ids, state_id \in state_ids \cup {0},
                   experience_data \in fields :
                    LET args == [id |-> experience_id, title |-> experience_data.title,
                                 state_id |-> state_id]
                        experience == get_experience(experience_id)
                    IN  IF experience = None
                        THEN /\ resp' = Answer("update_experience", "admin", token, a, args,
                                               Failed(404, "Experience not found"))
                             /\ UNCHANGED experiences
                        ELSE /\ experiences' = (experiences \ {experience[1]}) \cup
                                    {merge_experience(experience[1], args)}
                             /\ resp' = Answer("update_experience", "admin", token, a, args, Ok)
    /\ UNCHANGED <<accounts, discoveries, popups, likes, seqs, issued, reqs, last>>

DeleteExperience ==
    /\ Ready
    /\ \E token \in Credentials :
           LET a == get_admin_priviledge(token) IN
           IF ~a.ok
           THEN /\ resp' = Refused("delete_experience", "admin", token, a)
                /\ UNCHANGED <<experiences, likes>>
           ELSE \E experience_id \in Ids :
                    LET args == [id |-> experience_id]
                        experience_to_remove == get_experience(experience_id)
                    IN  IF experience_to_remove = None
                        THEN /\ resp' = Answer("delete_experience", "admin", token, a, args,
                                               Failed(404, "No experience found with id"))
                             /\ UNCHANGED <<experiences, likes>>
                        ELSE \E done \in delete_experience(experience_to_remove[1]) :
                                 /\ experiences' = done.experiences
                                 /\ likes' = done.likes
                                 /\ resp' = Answer("delete_experience", "admin", token, a, args,
                                                   IF done.ok THEN Ok
                                                   ELSE Failed(500, "IntegrityError"))
    /\ UNCHANGED <<accounts, discoveries, popups, seqs, issued, reqs, last>>

-----------------------------------------------------------------------------
(* Discoveries: create, update, delete (api_routers/discovery_api.py)      *)

\* The payload fields next to state_id and kind_id: title stands for the
\* fields discovery_api.update copies from the payload (title, description,
\* coordinate_gps, img_preview_path, img_paths).
DiscoveryFieldsAt(titles, points) ==
    [title : titles,
     video_paths : {IF t = "" THEN <<>> ELSE <<t>> : t \in titles},
     coordinate_gps : points,
     address : titles]

DiscoveryFields(titles) == DiscoveryFieldsAt(titles, {"12.0 41.0"})

\* f"POINT ({coordinate_gps})": the well-known text of a point.
POINT(coordinate_gps) == <<"POINT", coordinate_gps>>

CreateDiscovery(state_ids, kind_ids, fields) ==
    /\ Ready
    /\ \E token \in Credentials :
           LET a == get_admin_priviledge(token) IN
           IF ~a.ok
           THEN /\ resp' = Refused("create_discovery", "admin", token, a)
                /\ UNCHANGED <<discoveries, seqs>>
           ELSE \E state_id \in state_ids, kind_id \in kind_ids, discovery \in fields :
                    LET args == [title |-> discovery.title,
                                 video_paths |-> discovery.video_paths,
                                 coordinate_gps |-> discovery.coordinate_gps,
                                 address |-> discovery.address,
                                 state_id |-> state_id, kind_id |-> kind_id] IN
                    IF state_id < 0 \/ state_id > 2
                    THEN /\ resp' = Answer("create_discovery", "admin", token, a, args,
                                           Failed(400, InvalidState))
                         /\ UNCHANGED <<discoveries, seqs>>
                    ELSE /\ Inserted < MaxRows
                         /\ discoveries' = discoveries \cup
                                {[id |-> seqs.discoveries + 1, title |-> discovery.title,
                                  video_paths |-> discovery.video_paths,
                                  coordinate_gps |-> POINT(discovery.coordinate_gps),
                                  address |-> discovery.address,
                                  state_id |-> state_id, kind_id |-> kind_id]}
                         /\ seqs' = [seqs EXCEPT !.discoveries = @ + 1]
                         /\ resp' = Answer("create_discovery", "admin", token, a, args, Ok)
    /\ UNCHANGED <<accounts, experiences, popups, likes, issued, reqs, last>>

\* The field-by-field copy of discovery_api.update.  video_paths is assigned
\* from the row itself, and address is not read at all.
merge_discovery(discovery, discovery_data) ==
    LET with_title == IF discovery_data.title # ""
                      THEN [discovery EXCEPT !.title = discovery_data.title]
                      ELSE discovery
        with_videos == IF discovery_data.video_paths # <<>>
                       THEN [with_title EXCEPT !.video_paths = discovery.video_paths]
                       ELSE with_title
        with_point == IF discovery_data.coordinate_gps # ""
                      THEN [with_videos EXCEPT
                                !.coordinate_gps = POINT(discovery_data.coordinate_gps)]
                      ELSE with_videos
        with_state == IF discovery_data.state_id # 0
                      THEN [with_point EXCEPT !.state_id = discovery_data.state_id]
                      ELSE with_point
    IN  IF discovery_data.kind_id # 0
        THEN [with_state EXCEPT !.kind_id = discovery_data.kind_id]
        ELSE with_state

UpdateDiscovery(state_ids, kind_ids, fields) ==
    /\ Ready
    /\ \E token \in Credentials :
           LET a == get_admin_priviledge(token) IN
           IF ~a.ok
           THEN /\ resp' = Refused("update_discovery", "admin", token, a)
                /\ UNCHANGED discoveries
           ELSE \E discovery_id \in Ids, state_id \in state_ids \cup {0},
                   kind_id \in kind_ids \cup {0}, discovery_data \in fields :
                    LET args == [id |-> discovery_id, title |-> discovery_data.title,
                                 video_paths |-> discovery_data.video_paths,
                                 coordinate_gps |-> discovery_data.coordinate_gps,
                                 address |-> discovery_data.address,
                                 state_id |-> state_id, kind_id |-> kind_id]
                        discovery == crud_get_discovery(discovery_id)
                    IN  IF discovery = None
                        THEN /\ resp' = Answer("update_discovery", "admin", token, a, args,
                                               Failed(404, "Discovery not found"))
                             /\ UNCHANGED discoveries
                        ELSE /\ discoveries' = (discoveries \ {discovery[1]}) \cup
                                    {merge_discovery(discovery[1], args)}
                             /\ resp' = Answer("update_discovery", "admin", token, a, args, Ok)
    /\ UNCHANGED <<accounts, experiences, popups, likes, seqs, issued, reqs, last>>

DeleteDiscovery ==
    /\ Ready
    /\ \E token \in Credentials :
           LET a == get_admin_priviledge(token) IN
           IF ~a.ok
           THEN /\ resp' = Refused("delete_discovery", "admin", token, a)
                /\ UNCHANGED discoveries
           ELSE \E discovery_id \in Ids :
                    LET args == [id |-> discovery_id]
                        discovery_to_remove == crud_get_discovery(discovery_id)
                    IN  IF discovery_to_remove = None
                        THEN /\ resp' = Answer("delete_discovery", "admin", token, a, args,
                                               Failed(404, "No discovery found with id"))
                             /\ UNCHANGED discoveries
                        ELSE /\ discoveries' = discoveries \ {discovery_to_remove[1]}
                             /\ resp' = Answer("delete_discovery", "admin", token, a, args, Ok)
    /\ UNCHANGED <<accounts, experiences, popups, likes, seqs, issued, reqs, last>>

\* func.ST_GeomFromText(text, type_=Geography): the point a well-known text
\* names.
ST_GeomFromText(text) == text[2]

\* func.ST_Distance on geographies: metres between two points.  The points
\* of Points lie one degree of latitude apart on the same meridian.
ST_Distance(geography, position) ==
    IF geography[2] = position THEN 0 ELSE 111195

\* crud.distance_from_discoveries restricted to the discoveries a list shows.
distance_from_active_discoveries(my_position) ==
    {<<d.id, ST_Distance(d.coordinate_gps, ST_GeomFromText(my_position))>> :
        d \in {x \in discoveries : x.state_id = 1}}

\* crud.distance_from_discoveries: one (id, distance) row per discovery,
\* whatever its state.
distance_from_discoveries(my_position) ==
    {<<d.id, ST_Distance(d.coordinate_gps, ST_GeomFromText(my_position))>> :
        d \in discoveries}

\* distance[1] / 1000: Python's true division, kept as a quotient.
Quotient(metres, by) == [num |-> metres, den |-> by]

\* discovery_api.distance
distance(my_position) ==
    LET distances_in_m == distance_from_discoveries(POINT(my_position)) IN
    IF distances_in_m # {}
    THEN [status |-> 200, detail |-> "", body |-> NoPage,
          result |-> Some([k \in {row[1] : row \in distances_in_m} |->
                              Quotient((CHOOSE row \in distances_in_m : row[1] = k)[2],
                                       1000)])]
    ELSE [status |-> 404, detail |-> "No discoveries found.", body |-> NoPage,
          result |-> None]

Distance(points) ==
    /\ Ready
    /\ \E token \in Credentials :
           LET a == get_tourist_host_admin_priviledge(token) IN
           IF ~a.ok
           THEN resp' = Refused("distance", "any_of_three", token, a)
           ELSE \E my_position \in points :
                    LET done == distance(my_position) IN
                    resp' = [Answer("distance", "any_of_three", token, a,
                                    [my_position |-> my_position], done)
                                EXCEPT !.result = done.result]
    /\ UNCHANGED <<accounts, content, likes, seqs, issued, reqs, last>>

-----------------------------------------------------------------------------
(* The coordinate codec on the read path (schemas.ewkb_to_wkt,             *)
(* discovery_api.extract_coordinates, discovery_api.get_discovery)         *)

\* The store parsing the text of a point: longitude and latitude in tenths
\* of a degree, or nothing when the text is not a pair of numbers.
ParsePoint(text) ==
    CASE text \in {"12.5 41.9", "12.50  41.90"} -> <<125, 419>>
      [] text \in {"12.0 41.0", "12 41"} -> <<120, 410>>
      [] text \in {"12.0 42.0", "12 42"} -> <<120, 420>>
      [] OTHER -> <<>>

\* shapely's rendering of a point's coordinates: shortest decimal form, one
\* blank between the numbers.
RenderPoint(point) ==
    CASE point = <<125, 419>> -> "12.5 41.9"
      [] point = <<120, 410>> -> "12 41"
      [] point = <<120, 420>> -> "12 42"
      [] OTHER -> ""

\* A geography column never written: NULL, and the empty point.
NULL == None
POINT_EMPTY == <<"POINT EMPTY">>

\* What a SELECT returns for the geography column: the hex of the EWKB of
\* the value the store parsed at insert, or None for NULL.
geography_out(coordinate_gps) ==
    IF coordinate_gps = NULL THEN None
    ELSE IF coordinate_gps = POINT_EMPTY THEN Some([srid |-> 4326, point |-> <<>>])
    ELSE Some([srid |-> 4326, point |-> ParsePoint(coordinate_gps[2])])

\* schemas.ewkb_to_wkt: unhexlify and loads inside try/except; the text of
\* the geometry when it is truthy (not empty); None in every other case
\* (the exception is printed and swallowed).
ewkb_to_wkt(geom_hex) ==
    IF geom_hex = None
    THEN None                                   \* unhexlify(None): TypeError, caught
    ELSE LET a == geom_hex[1].point IN
         IF a # <<>> THEN Some(POINT(RenderPoint(a))) ELSE None

\* extract_coordinates keeping the text before the parenthesis.
extract_coordinates_before(point_str) ==
    IF point_str = None THEN [raised |-> TRUE, value |-> ""]
    ELSE [raised |-> FALSE, value |-> point_str[1][1]]

\* discovery_api.extract_coordinates: re.search(r"\(([^)]+)\)", point_str);
\* the group when it matches, "" when it does not; re.search raises
\* TypeError when point_str is None.
extract_coordinates(point_str) ==
    IF point_str = None THEN [raised |-> TRUE, value |-> ""]
    ELSE IF point_str[1][2] # "" THEN [raised |-> FALSE, value |-> point_str[1][2]]
    ELSE [raised |-> FALSE, value |-> ""]

\* discovery_api.get_discovery
get_discovery(id) ==
    LET discovery == crud_get_discovery(id) IN
    IF discovery # None
    THEN LET coordinate_gps ==
                 extract_coordinates(ewkb_to_wkt(geography_out(discovery[1].coordinate_gps)))
         IN  IF coordinate_gps.raised
             THEN [status |-> 500, detail |-> "TypeError", body |-> NoPage, result |-> None]
             ELSE [status |-> 200, detail |-> "", body |-> NoPage,
                   result |-> Some([discovery[1] EXCEPT
                                       !.coordinate_gps = coordinate_gps.value])]
    ELSE [status |-> 404, detail |-> "Experience not found.", body |-> NoPage,
          result |-> None]

GetDiscovery ==
    /\ Ready
    /\ \E token \in Credentials :
           LET a == get_tourist_host_admin_priviledge(token) IN
           IF ~a.ok
           THEN resp' = Refused("get_discovery", "any_of_three", token, a)
           ELSE \E id \in Ids :
                    LET done == get_discovery(id) IN
                    resp' = [Answer("get_discovery", "any_of_three", token, a,
                                    [id |-> id], done)
                                EXCEPT !.result = done.result]
    /\ UNCHANGED <<accounts, content, likes, seqs, issued, reqs, last>>

-----------------------------------------------------------------------------
(* Popup messages: create, update, delete (api_routers/popup_msg.py)       *)

CreatePopup ==
    /\ Ready
    /\ \E token \in Credentials :
           LET a == get_admin_priviledge(token) IN
           IF ~a.ok
           THEN /\ resp' = Refused("create_popup", "admin", token, a)
                /\ UNCHANGED <<popups, seqs>>
           ELSE \E text \in Texts :
                    /\ Inserted < MaxRows
                    /\ popups' = popups \cup {[id |-> seqs.popups + 1, text |-> text]}
                    /\ seqs' = [seqs EXCEPT !.popups = @ + 1]
                    /\ resp' = Answer("create_popup", "admin", token, a,
                                      [text |-> text], Ok)
    /\ UNCHANGED <<accounts, experiences, discoveries, likes, issued, reqs, last>>

UpdatePopup ==
    /\ Ready
    /\ \E token \in Credentials :
           LET a == get_admin_priviledge(token) IN
           IF ~a.ok
           THEN /\ resp' = Refused("update_popup", "admin", token, a)
                /\ UNCHANGED popups
           ELSE \E popup_id \in Ids, text \in Texts :
                    LET args == [id |-> popup_id, text |-> text]
                        old_popup == get_single_popup(popup_id)
                    IN  IF old_popup = None
                        THEN /\ resp' = Answer("update_popup", "admin", token, a, args,
                                               Failed(404, "Popup message not found"))
                             /\ UNCHANGED popups
                        ELSE /\ popups' = IF text # old_popup[1].text
                                          THEN (popups \ {old_popup[1]}) \cup
                                                   {[old_popup[1] EXCEPT !.text = text]}
                                          ELSE popups
                             /\ resp' = Answer("update_popup", "admin", token, a, args, Ok)
    /\ UNCHANGED <<accounts, experiences, discoveries, likes, seqs, issued, reqs, last>>

DeletePopup ==
    /\ Ready
    /\ \E token \in Credentials :
           LET a == get_admin_priviledge(token) IN
           IF ~a.ok
           THEN /\ resp' = Refused("delete_popup", "admin", token, a)
                /\ UNCHANGED popups
           ELSE \E popup_id \in Ids :
                    LET args == [id |-> popup_id]
                        popup_to_delete == get_single_popup(popup_id)
                    IN  IF popup_to_delete = None
                        THEN /\ resp' = Answer("delete_popup", "admin", token, a, args,
                                               Failed(404, "No popup messages found."))
                             /\ UNCHANGED popups
                        ELSE /\ popups' = popups \ {popup_to_delete[1]}
                             /\ resp' = Answer("delete_popup", "admin", token, a, args, Ok)
    /\ UNCHANGED <<accounts, experiences, discoveries, likes, seqs, issued, reqs, last>>

-----------------------------------------------------------------------------
(* utility/encryption.py: a one-way hash and its verification.             *)

\* hash_password storing the password as received.
hash_password_plain(password) == <<"plain", password>>

hash_password(password) == <<"bcrypt", password>>
\* check_password accepting every password.
check_password_any(input_password, hashed_password_string) == TRUE

check_password(input_password, hashed_password_string) ==
    hashed_password_string = <<"bcrypt", input_password>>

-----------------------------------------------------------------------------
(* Tourists (crud.py, api_routers/tourist_api.py)                          *)

NoToken == [valid |-> FALSE, role |-> Role(0), user_id |-> 0]
Registered == seqs.tourists + seqs.hosts
DuplicateValue ==
    "Value already registered. (Value can be an email a title or a popup message text)."

\* The message of the IntegrityError the store raises on a duplicate key.
UniqueViolation == "duplicate key value violates unique constraint"

\* CustomExceptionsClass.handle with every error re-raised.
handle_reraised(error) == Failed(500, error)

\* CustomExceptionsClass.handle: after the rollback, a duplicate-key
\* IntegrityError becomes HTTP 400, NoResultFound becomes HTTP 400, and any
\* other error is raised again.
handle(error) ==
    IF error = UniqueViolation THEN Failed(400, DuplicateValue)
    ELSE IF error = "NoResultFound" THEN Failed(400, "Experience id not existing.")
    ELSE Failed(500, error)

get_tourist_user(user_id) == first({t \in tourists : t.id = user_id})
get_tourist_user_by_email(email) == first({t \in tourists : t.email = email})

\* The store's unique constraint on the email column of a user table.
email_unique(rows, row) == \A other \in rows : other.id # row.id => other.email # row.email

get_current_tourist_any_state(token) ==
    LET payload_token == is_jwt_valid(token) IN
    IF payload_token # None
    THEN IF payload_token[1].role = Role(2)
         THEN LET db_tourist_user == get_tourist_user(payload_token[1].user_id) IN
              IF db_tourist_user = None
              THEN [ok |-> FALSE, status |-> 404, detail |-> "Tourist not found", user |-> None]
              ELSE [ok |-> TRUE, status |-> 200, detail |-> "", user |-> db_tourist_user]
         ELSE [ok |-> FALSE, status |-> 401, detail |-> "Unauthorized user.", user |-> None]
    ELSE [ok |-> FALSE, status |-> 401, detail |-> "Incorrect token", user |-> None]

get_current_tourist(token) ==
    LET payload_token == is_jwt_valid(token) IN
    IF payload_token # None
    THEN IF payload_token[1].role = Role(2)
         THEN LET db_tourist_user == get_tourist_user(payload_token[1].user_id) IN
              IF db_tourist_user = None
              THEN [ok |-> FALSE, status |-> 404, detail |-> "Tourist not found", user |-> None]
              ELSE IF db_tourist_user[1].state_id = 1
              THEN [ok |-> TRUE, status |-> 200, detail |-> "", user |-> db_tourist_user]
              ELSE [ok |-> FALSE, status |-> 401,
                    detail |-> "This user has been deactivated.", user |-> None]
         ELSE [ok |-> FALSE, status |-> 401, detail |-> "Unauthorized user.", user |-> None]
    ELSE [ok |-> FALSE, status |-> 401, detail |-> "Incorrect token", user |-> None]

\* The outcome of the dependency without the identity it resolved.
Outcome(a) == [ok |-> a.ok, status |-> a.status, detail |-> a.detail]

\* get_my_data: the identity the dependency resolved, as {"result": ...}.
GetMyDataTourist ==
    /\ Ready
    /\ \E token \in Credentials :
           LET a == get_current_tourist(token) IN
           IF ~a.ok
           THEN resp' = Refused("get_my_data_tourist", "current_tourist", token, Outcome(a))
           ELSE resp' = [Answer("get_my_data_tourist", "current_tourist", token, Outcome(a),
                                <<>>, Ok)
                            EXCEPT !.result = a.user]
    /\ UNCHANGED <<accounts, content, likes, seqs, issued, reqs, last>>

RegisterTourist(state_ids, passwords) ==
    /\ Ready
    /\ \E email \in Emails, password \in passwords, state_id \in state_ids :
           LET args == [email |-> email, password |-> password, state_id |-> state_id]
               new_tourist_user == [id |-> seqs.tourists + 1, email |-> email,
                                    password |-> hash_password(password),
                                    state_id |-> state_id]
           IN  IF state_id < 0 \/ state_id > 2
               THEN /\ resp' = Answer("register_tourist", "none", NoToken, Granted, args,
                                      Failed(400, InvalidState))
                    /\ UNCHANGED <<tourists, seqs>>
               ELSE IF ~email_unique(tourists, new_tourist_user)
               THEN /\ resp' = Answer("register_tourist", "none", NoToken, Granted, args,
                                      handle(UniqueViolation))
                    /\ UNCHANGED <<tourists, seqs>>
               ELSE /\ Inserted < MaxRows
                    /\ Registered < MaxAccounts
                    /\ tourists' = tourists \cup {new_tourist_user}
                    /\ seqs' = [seqs EXCEPT !.tourists = @ + 1]
                    /\ resp' = Answer("register_tourist", "none", NoToken, Granted, args, Ok)
    /\ UNCHANGED <<hosts, content, likes, issued, reqs, last>>

\* authenticate_tourist: the id, None when the password does not verify, or
\* the 404 raised for an unknown email.
authenticate_tourist(email, password) ==
    LET tourist == get_tourist_user_by_email(email) IN
    IF tourist # None
    THEN IF check_password(password, tourist[1].password)
         THEN [raised |-> FALSE, id |-> Some(tourist[1].id)]
         ELSE [raised |-> FALSE, id |-> None]
    ELSE [raised |-> TRUE, id |-> None]

SigninTourist ==
    /\ Ready
    /\ \E email \in Emails, password \in Passwords :
           LET args == [email |-> email, password |-> password]
               found == authenticate_tourist(email, password)
               payload == [user_id |-> found.id[1], role |-> Role(2)]
           IN  IF found.raised
               THEN /\ resp' = Answer("signin_tourist", "none", NoToken, Granted, args,
                                      Failed(404, "User doesn't exist-"))
                    /\ UNCHANGED issued
               ELSE IF found.id # None
               THEN /\ issued' = issued \cup {payload}
                    /\ resp' = Answer("signin_tourist", "none", create_jwt(payload),
                                      Granted, args, Ok)
               ELSE /\ resp' = Answer("signin_tourist", "none", NoToken, Granted, args,
                                      Failed(401, "Incorrect username or password"))
                    /\ UNCHANGED issued
    /\ UNCHANGED <<accounts, content, likes, seqs, reqs, last>>

UpdateMyInfoTourist ==
    /\ Ready
    /\ \E token \in Credentials :
           LET a == get_current_tourist(token) IN
           IF ~a.ok
           THEN /\ resp' = Refused("update_tourist", "current_tourist", token, Outcome(a))
                /\ UNCHANGED tourists
           ELSE \E new_email \in Emails \cup {""},
                   new_state_id \in {None, Some(1), Some(2)} :   \* Query(None, ge=1, le=2)
                    LET args == [new_email |-> new_email, new_state_id |-> new_state_id]
                        db_tourist_user == get_tourist_user(a.user[1].id)
                        with_email == IF new_email # ""
                                      THEN [db_tourist_user[1] EXCEPT !.email = new_email]
                                      ELSE db_tourist_user[1]
                        with_state == IF new_state_id # None
                                      THEN [with_email EXCEPT !.state_id = new_state_id[1]]
                                      ELSE with_email
                    IN  IF db_tourist_user = None
                        THEN /\ resp' = Answer("update_tourist", "current_tourist", token,
                                               Outcome(a), args,
                                               Failed(404, "Tourist not found"))
                             /\ UNCHANGED tourists
                        ELSE IF ~email_unique(tourists, with_state)
                        THEN /\ resp' = Answer("update_tourist", "current_tourist", token,
                                               Outcome(a), args, handle(UniqueViolation))
                             /\ UNCHANGED tourists
                        ELSE /\ tourists' = (tourists \ {db_tourist_user[1]}) \cup {with_state}
                             /\ resp' = Answer("update_tourist", "current_tourist", token,
                                               Outcome(a), args, Ok)
    /\ UNCHANGED <<hosts, content, likes, seqs, issued, reqs, last>>

\* crud.delete_tourist: as for experiences, the like rows of the deleted
\* tourist are the store's business (delete refused, or rows detached).
LikesOf(user_id) == \E pair \in DOMAIN likes : pair[1] = user_id /\ likes[pair] > 0

delete_tourist(tourist_to_remove) ==
    IF LikesOf(tourist_to_remove.id)
    THEN {[ok |-> FALSE, tourists |-> tourists, likes |-> likes],
          [ok |-> TRUE, tourists |-> tourists \ {tourist_to_remove},
           likes |-> [pair \in DOMAIN likes |->
                         IF pair[1] = tourist_to_remove.id THEN 0 ELSE likes[pair]]]}
    ELSE {[ok |-> TRUE, tourists |-> tourists \ {tourist_to_remove}, likes |-> likes]}

DeleteMyAccountTourist ==
    /\ Ready
    /\ \E token \in Credentials :
           LET a == get_current_tourist(token) IN
           IF ~a.ok
           THEN /\ resp' = Refused("delete_tourist", "current_tourist", token, Outcome(a))
                /\ UNCHANGED <<tourists, likes>>
           ELSE \E password \in Passwords :
                    LET args == [password |-> password] IN
                    IF check_password(password, a.user[1].password)
                    THEN \E done \in delete_tourist(get_tourist_user(a.user[1].id)[1]) :
                             /\ tourists' = done.tourists
                             /\ likes' = done.likes
                             /\ resp' = Answer("delete_tourist", "current_tourist", token,
                                               Outcome(a), args,
                                               IF done.ok THEN Ok
                                               ELSE Failed(500, "IntegrityError"))
                    ELSE /\ resp' = Answer("delete_tourist", "current_tourist", token,
                                           Outcome(a), args, Failed(401, "Invalid password."))
                         /\ UNCHANGED <<tourists, likes>>
    /\ UNCHANGED <<hosts, content, seqs, issued, reqs, last>>

-----------------------------------------------------------------------------
(* Hosts (crud.py, api_routers/host_api.py)                                *)

get_host_user(user_id) == first({h \in hosts : h.id = user_id})
get_host_user_by_email(email) == first({h \in hosts : h.email = email})

get_current_host_any_state(token) ==
    LET payload_token == is_jwt_valid(token) IN
    IF payload_token # None
    THEN IF payload_token[1].role = Role(1)
         THEN LET db_host_user == get_host_user(payload_token[1].user_id) IN
              IF db_host_user = None
              THEN [ok |-> FALSE, status |-> 404, detail |-> "Host not found", user |-> None]
              ELSE [ok |-> TRUE, status |-> 200, detail |-> "", user |-> db_host_user]
         ELSE [ok |-> FALSE, status |-> 401, detail |-> "Unauthorized user.", user |-> None]
    ELSE [ok |-> FALSE, status |-> 401, detail |-> "Incorrect token", user |-> None]

get_current_host(token) ==
    LET payload_token == is_jwt_valid(token) IN
    IF payload_token # None
    THEN IF payload_token[1].role = Role(1)
         THEN LET db_host_user == get_host_user(payload_token[1].user_id) IN
              IF db_host_user = None
              THEN [ok |-> FALSE, status |-> 404, detail |-> "Host not found", user |-> None]
              ELSE IF db_host_user[1].state_id = 1
              THEN [ok |-> TRUE, status |-> 200, detail |-> "", user |-> db_host_user]
              ELSE [ok |-> FALSE, status |-> 401,
                    detail |-> "This user has been deactivated.", user |-> None]
         ELSE [ok |-> FALSE, status |-> 401, detail |-> "Unauthorized user.", user |-> None]
    ELSE [ok |-> FALSE, status |-> 401, detail |-> "Incorrect token", user |-> None]

GetMyDataHost ==
    /\ Ready
    /\ \E token \in Credentials :
           LET a == get_current_host(token) IN
           IF ~a.ok
           THEN resp' = Refused("get_my_data_host", "current_host", token, Outcome(a))
           ELSE resp' = [Answer("get_my_data_host", "current_host", token, Outcome(a),
                                <<>>, Ok)
                            EXCEPT !.result = a.user]
    /\ UNCHANGED <<accounts, content, likes, seqs, issued, reqs, last>>

RegisterHost(state_ids, passwords) ==
    /\ Ready
    /\ \E email \in Emails, password \in passwords, state_id \in state_ids :
           LET args == [email |-> email, password |-> password, state_id |-> state_id]
               new_host_user == [id |-> seqs.hosts + 1, email |-> email,
                                 password |-> hash_password(password),
                                 state_id |-> state_id]
           IN  IF state_id < 0 \/ state_id > 2
               THEN /\ resp' = Answer("register_host", "none", NoToken, Granted, args,
                                      Failed(400, InvalidState))
                    /\ UNCHANGED <<hosts, seqs>>
               ELSE IF ~email_unique(hosts, new_host_user)
               THEN /\ resp' = Answer("register_host", "none", NoToken, Granted, args,
                                      handle(UniqueViolation))
                    /\ UNCHANGED <<hosts, seqs>>
               ELSE /\ Inserted < MaxRows
                    /\ Registered < MaxAccounts
                    /\ hosts' = hosts \cup {new_host_user}
                    /\ seqs' = [seqs EXCEPT !.hosts = @ + 1]
                    /\ resp' = Answer("register_host", "none", NoToken, Granted, args, Ok)
    /\ UNCHANGED <<tourists, content, likes, issued, reqs, last>>

authenticate_host_any_password(email, password) ==
    LET host == get_host_user_by_email(email) IN
    IF host # None
    THEN [raised |-> FALSE, id |-> Some(host[1].id)]
    ELSE [raised |-> TRUE, id |-> None]

authenticate_host(email, password) ==
    LET host == get_host_user_by_email(email) IN
    IF host # None
    THEN IF check_password(password, host[1].password)
         THEN [raised |-> FALSE, id |-> Some(host[1].id)]
         ELSE [raised |-> FALSE, id |-> None]
    ELSE [raised |-> TRUE, id |-> None]

SigninHost ==
    /\ Ready
    /\ \E email \in Emails, password \in Passwords :
           LET args == [email |-> email, password |-> password]
               found == authenticate_host(email, password)
               payload == [user_id |-> found.id[1], role |-> Role(1)]
           IN  IF found.raised
               THEN /\ resp' = Answer("signin_host", "none", NoToken, Granted, args,
                                      Failed(404, "User doesn't exist-"))
                    /\ UNCHANGED issued
               ELSE IF found.id # None
               THEN /\ issued' = issued \cup {payload}
                    /\ resp' = Answer("signin_host", "none", create_jwt(payload),
                                      Granted, args, Ok)
               ELSE /\ resp' = Answer("signin_host", "none", NoToken, Granted, args,
                                      Failed(401, "Incorrect username or password"))
                    /\ UNCHANGED issued
    /\ UNCHANGED <<accounts, content, likes, seqs, reqs, last>>

UpdateMyInfoHost ==
    /\ Ready
    /\ \E token \in Credentials :
           LET a == get_current_host(token) IN
           IF ~a.ok
           THEN /\ resp' = Refused("update_host", "current_host", token, Outcome(a))
                /\ UNCHANGED hosts
           ELSE \E new_email \in Emails \cup {""},
                   new_state_id \in {None, Some(1), Some(2)} :   \* Query(None, ge=1, le=2)
                    LET args == [new_email |-> new_email, new_state_id |-> new_state_id]
                        db_host_user == get_host_user(a.user[1].id)
                        with_email == IF new_email # ""
                                      THEN [db_host_user[1] EXCEPT !.email = new_email]
                                      ELSE db_host_user[1]
                        with_state == IF new_state_id # None
                                      THEN [with_email EXCEPT !.state_id = new_state_id[1]]
                                      ELSE with_email
                    IN  IF db_host_user = None
                        THEN /\ resp' = Answer("update_host", "current_host", token,
                                               Outcome(a), args, Failed(404, "Host not found"))
                             /\ UNCHANGED hosts
                        ELSE IF ~email_unique(hosts, with_state)
                        THEN /\ resp' = Answer("update_host", "current_host", token,
                                               Outcome(a), args, handle(UniqueViolation))
                             /\ UNCHANGED hosts
                        ELSE /\ hosts' = (hosts \ {db_host_user[1]}) \cup {with_state}
                             /\ resp' = Answer("update_host", "current_host", token,
                                               Outcome(a), args, Ok)
    /\ UNCHANGED <<tourists, content, likes, seqs, issued, reqs, last>>

DeleteMyAccountHost ==
    /\ Ready
    /\ \E token \in Credentials :
           LET a == get_current_host(token) IN
           IF ~a.ok
           THEN /\ resp' = Refused("delete_host", "current_host", token, Outcome(a))
                /\ UNCHANGED hosts
           ELSE \E password \in Passwords :
                    LET args == [password |-> password] IN
                    IF check_password(password, a.user[1].password)
                    THEN /\ hosts' = hosts \ {get_host_user(a.user[1].id)[1]}
                         /\ resp' = Answer("delete_host", "current_host", token,
                                           Outcome(a), args, Ok)
                    ELSE /\ resp' = Answer("delete_host", "current_host", token,
                                           Outcome(a), args, Failed(401, "Invalid password."))
                         /\ UNCHANGED hosts
    /\ UNCHANGED <<tourists, content, likes, seqs, issued, reqs, last>>

-----------------------------------------------------------------------------
(* Password update and the list of likes (tourist_api.py, host_api.py)     *)

\* tourist_api.update_my_password.  Identical passwords are answered with
\* a plain result, without an exception.
UpdateMyPasswordTourist ==
    /\ Ready
    /\ \E token \in Credentials :
           LET a == get_current_tourist(token) IN
           IF ~a.ok
           THEN /\ resp' = Refused("update_password_tourist", "current_tourist", token,
                                   Outcome(a))
                /\ UNCHANGED tourists
           ELSE \E old_password \in Passwords, new_password \in Passwords :
                    LET args == [old_password |-> old_password,
                                 new_password |-> new_password]
                        db_tourist_user == get_tourist_user(a.user[1].id)
                    IN  IF old_password = new_password
                        THEN /\ resp' = [Answer("update_password_tourist", "current_tourist",
                                                token, Outcome(a), args, Ok)
                                            EXCEPT !.result = Some("Identical input passwords.")]
                             /\ UNCHANGED tourists
                        ELSE IF check_password(old_password, a.user[1].password)
                        THEN IF db_tourist_user # None
                             THEN /\ tourists' = (tourists \ {db_tourist_user[1]}) \cup
                                        {[db_tourist_user[1] EXCEPT
                                             !.password = hash_password(new_password)]}
                                  /\ resp' = [Answer("update_password_tourist",
                                                     "current_tourist", token, Outcome(a),
                                                     args, Ok)
                                                 EXCEPT !.result = Some(TRUE)]
                             ELSE /\ resp' = Answer("update_password_tourist",
                                                    "current_tourist", token, Outcome(a),
                                                    args,
                                                    Failed(404, "User not found on database"))
                                  /\ UNCHANGED tourists
                        ELSE /\ resp' = Answer("update_password_tourist", "current_tourist",
                                               token, Outcome(a), args,
                                               Failed(403, "Invalid Password."))
                             /\ UNCHANGED tourists
    /\ UNCHANGED <<hosts, content, likes, seqs, issued, reqs, last>>

\* host_api.update_my_password.  Identical passwords raise 400.
UpdateMyPasswordHost ==
    /\ Ready
    /\ \E token \in Credentials :
           LET a == get_current_host(token) IN
           IF ~a.ok
           THEN /\ resp' = Refused("update_password_host", "current_host", token, Outcome(a))
                /\ UNCHANGED hosts
           ELSE \E old_password \in Passwords, new_password \in Passwords :
                    LET args == [old_password |-> old_password,
                                 new_password |-> new_password]
                        db_host_user == get_host_user(a.user[1].id)
                    IN  IF old_password = new_password
                        THEN /\ resp' = Answer("update_password_host", "current_host", token,
                                               Outcome(a), args,
                                               Failed(400, "Identical input passwords."))
                             /\ UNCHANGED hosts
                        ELSE IF check_password(old_password, a.user[1].password)
                        THEN IF db_host_user # None
                             THEN /\ hosts' = (hosts \ {db_host_user[1]}) \cup
                                        {[db_host_user[1] EXCEPT
                                             !.password = hash_password(new_password)]}
                                  /\ resp' = [Answer("update_password_host", "current_host",
                                                     token, Outcome(a), args, Ok)
                                                 EXCEPT !.result = Some(TRUE)]
                             ELSE /\ resp' = Answer("update_password_host", "current_host",
                                                    token, Outcome(a), args,
                                                    Failed(404, "User not found on database"))
                                  /\ UNCHANGED hosts
                        ELSE /\ resp' = Answer("update_password_host", "current_host", token,
                                               Outcome(a), args,
                                               Failed(401, "Invalid Password."))
                             /\ UNCHANGED hosts
    /\ UNCHANGED <<tourists, content, likes, seqs, issued, reqs, last>>

\* crud.get_likes: the experience ids of the rows of one tourist.
get_likes(user_id) ==
    {pair[2] : pair \in {q \in DOMAIN likes : q[1] = user_id /\ likes[q] > 0}}

\* tourist_api.get_my_likes_list
GetMyLikesList ==
    /\ Ready
    /\ \E token \in Credentials :
           LET a == get_current_tourist(token) IN
           IF ~a.ok
           THEN resp' = Refused("likes_list", "current_tourist", token, Outcome(a))
           ELSE resp' = [Answer("likes_list", "current_tourist", token, Outcome(a),
                                <<>>, Ok)
                            EXCEPT !.result = Some(get_likes(a.user[1].id))]
    /\ UNCHANGED <<accounts, content, likes, seqs, issued, reqs, last>>

-----------------------------------------------------------------------------
(* A request to an endpoint guarded by one of the three role dependencies  *)
(* of utility/authentication_data.py: the dependency alone.                *)

Dependency(dep, token) ==
    CASE dep = "admin" -> get_admin_priviledge(token)
      [] dep = "host_or_tourist" -> get_tourist_host_priviledge(token)
      [] dep = "any_of_three" -> get_tourist_host_admin_priviledge(token)

Authorize ==
    /\ Ready
    /\ \E token \in Credentials, dep \in {"admin", "host_or_tourist", "any_of_three"} :
           resp' = Refused("authorize", dep, token, Dependency(dep, token))
    /\ UNCHANGED <<accounts, content, likes, seqs, issued, reqs, last>>

-----------------------------------------------------------------------------
(* Likes (crud.py, tourist_api.toggle_like).  The table is a bag: the      *)
(* number of rows held for each (tourist, experience) pair.                *)

NoLast == [n |-> 0, pair |-> <<0, 0>>, liked |-> FALSE, rows |-> 0]
Idle == [pc |-> "idle", me |-> 0, experience_id |-> 0, already_liked |-> None,
         status |-> 0, detail |-> "", result |-> None]

TotalLikes(table) ==
    LET RECURSIVE Sum(_)
        Sum(pairs) == IF pairs = {} THEN 0
                      ELSE LET pair == CHOOSE q \in pairs : TRUE
                           IN  table[pair] + Sum(pairs \ {pair})
    IN  Sum(DOMAIN table)

get_like_of_any_experience(table, user_id, experience_id) ==
    first({[id |-> pair] : pair \in {q \in DOMAIN table : q[1] = user_id /\ table[q] > 0}})

get_like(table, user_id, experience_id) ==
    first({[id |-> pair] : pair \in {q \in DOMAIN table :
               q[1] = user_id /\ q[2] = experience_id /\ table[q] > 0}})

unique_like_unconstrained(table, new_like) == TRUE

\* The store's unique constraint on (tourist_id, experience_id), on which
\* the toggle relies to reject the second of two concurrent inserts.
unique_like(table, new_like) == table[new_like] = 0

create_like(table, new_like) ==
    IF unique_like(table, new_like)
    THEN [ok |-> TRUE, likes |-> [table EXCEPT ![new_like] = @ + 1]]
    ELSE [ok |-> FALSE, likes |-> table]

delete_like_kept(table, like_to_remove) == table

\* Deleting a row another session has already deleted removes nothing.
delete_like(table, like_to_remove) ==
    [table EXCEPT ![like_to_remove] = IF @ > 0 THEN @ - 1 ELSE 0]

\* toggle_like without the check that the experience exists.
toggle_like_unchecked(table, me, experience_id) ==
    LET already_liked == get_like(table, me, experience_id) IN
    IF already_liked # None
    THEN [likes |-> delete_like(table, already_liked[1].id),
          status |-> 200, detail |-> "", result |-> Some(FALSE)]
    ELSE [likes |-> create_like(table, <<me, experience_id>>).likes,
          status |-> 200, detail |-> "", result |-> Some(TRUE)]

toggle_like(table, me, experience_id) ==
    IF get_experience(experience_id) # None
    THEN LET already_liked == get_like(table, me, experience_id) IN
         IF already_liked # None
         THEN [likes |-> delete_like(table, already_liked[1].id),
               status |-> 200, detail |-> "", result |-> Some(FALSE)]
         ELSE LET created == create_like(table, <<me, experience_id>>) IN
              IF created.ok
              THEN [likes |-> created.likes, status |-> 200, detail |-> "",
                    result |-> Some(TRUE)]
              ELSE [likes |-> table, status |-> 400, detail |-> DuplicateValue,
                    result |-> None]
    ELSE [likes |-> table, status |-> 404, detail |-> "Experience not found.",
          result |-> None]

\* The experience ids a request names: those in the store and one that is not.
ExperienceIdInputs == {e.id : e \in experiences} \cup {seqs.experiences + 1}

\* The record of the last successful toggles: the like-state of the pair and
\* the size of the table before the first of two consecutive toggles of one
\* pair.
Toggled(pair) ==
    IF last.n = 1 /\ last.pair = pair
    THEN [last EXCEPT !.n = 2]
    ELSE [n |-> 1, pair |-> pair, liked |-> likes[pair] > 0, rows |-> TotalLikes(likes)]

\* One toggle request served alone, from the dependency to the response.
ToggleLike ==
    /\ Ready
    /\ \E token \in Credentials :
           LET a == get_current_tourist(token) IN
           IF ~a.ok
           THEN /\ resp' = Refused("toggle_like", "current_tourist", token, Outcome(a))
                /\ UNCHANGED <<likes, last>>
           ELSE \E experience_id \in ExperienceIdInputs :
                    LET me == a.user[1].id
                        done == toggle_like(likes, me, experience_id)
                    IN  /\ likes' = done.likes
                        /\ last' = IF done.status = 200 THEN Toggled(<<me, experience_id>>)
                                   ELSE last
                        /\ resp' = [Answer("toggle_like", "current_tourist", token, Outcome(a),
                                           [experience_id |-> experience_id],
                                           [status |-> done.status, detail |-> done.detail,
                                            body |-> NoPage])
                                      EXCEPT !.result = done.result]
    /\ UNCHANGED <<accounts, content, seqs, issued, reqs>>

-----------------------------------------------------------------------------
(* Toggle requests served concurrently: each worker runs the handler's     *)
(* statements in order, every database call being one step.                *)

BeginToggle(w) ==
    /\ reqs[w].pc = "idle"
    /\ \E token \in Credentials :
           LET a == get_current_tourist(token) IN
           IF ~a.ok
           THEN reqs' = [reqs EXCEPT ![w] = [Idle EXCEPT !.pc = "done", !.status = a.status,
                                                         !.detail = a.detail]]
           ELSE \E experience_id \in ExperienceIdInputs :
                    reqs' = [reqs EXCEPT ![w] = [Idle EXCEPT !.pc = "authorized",
                                                             !.me = a.user[1].id,
                                                             !.experience_id = experience_id]]
    /\ UNCHANGED <<accounts, content, likes, seqs, issued, last, resp>>

\* db_experience = crud.get_experience(db, experience_id)
CheckExperience(w) ==
    /\ reqs[w].pc = "authorized"
    /\ reqs' = [reqs EXCEPT ![w] =
                   IF get_experience(reqs[w].experience_id) # None
                   THEN [@ EXCEPT !.pc = "found"]
                   ELSE [@ EXCEPT !.pc = "done", !.status = 404,
                                  !.detail = "Experience not found."]]
    /\ UNCHANGED <<accounts, content, likes, seqs, issued, last, resp>>

\* already_liked = crud.get_like(db, me.id, experience_id)
CheckLike(w) ==
    /\ reqs[w].pc = "found"
    /\ reqs' = [reqs EXCEPT ![w] =
                   [@ EXCEPT !.pc = "checked",
                             !.already_liked =
                                 get_like(likes, reqs[w].me, reqs[w].experience_id)]]
    /\ UNCHANGED <<accounts, content, likes, seqs, issued, last, resp>>

\* crud.delete_like(db, already_liked) or crud.create_like(db, new_like)
WriteLike(w) ==
    /\ reqs[w].pc = "checked"
    /\ LET r == reqs[w]
           created == create_like(likes, <<r.me, r.experience_id>>)
       IN  IF r.already_liked # None
           THEN /\ likes' = delete_like(likes, r.already_liked[1].id)
                /\ reqs' = [reqs EXCEPT ![w] = [r EXCEPT !.pc = "done", !.status = 200,
                                                         !.result = Some(FALSE)]]
           ELSE IF created.ok
           THEN /\ likes' = created.likes
                /\ reqs' = [reqs EXCEPT ![w] = [r EXCEPT !.pc = "done", !.status = 200,
                                                         !.result = Some(TRUE)]]
           ELSE /\ likes' = likes
                /\ reqs' = [reqs EXCEPT ![w] = [r EXCEPT !.pc = "done", !.status = 400,
                                                         !.detail = DuplicateValue]]
    /\ UNCHANGED <<accounts, content, seqs, issued, last, resp>>

EndToggle(w) ==
    /\ reqs[w].pc = "done"
    /\ reqs' = [reqs EXCEPT ![w] = Idle]
    /\ UNCHANGED <<accounts, content, likes, seqs, issued, last, resp>>

-----------------------------------------------------------------------------
(* The empty store, and the specification of the content endpoints.        *)

Init ==
    /\ tourists = {}
    /\ hosts = {}
    /\ experiences = {}
    /\ discoveries = {}
    /\ popups = {}
    /\ likes = [pair \in AccountIds \X Ids |-> 0]
    /\ seqs = [tourists |-> 0, hosts |-> 0, experiences |-> 0,
               discoveries |-> 0, popups |-> 0]
    /\ issued = {}
    /\ reqs = [w \in Workers |-> Idle]
    /\ last = NoLast
    /\ resp = NoResponse

Next ==
    \/ Reply
    \/ AdminLogin
    \/ ListExperiences
    \/ ListDiscoveries
    \/ ListPopups
    \/ CreateExperience(ValidStateIds, ExperienceFields(PlainTexts))
    \/ UpdateExperience(ValidStateIds, ExperienceFields(PlainTexts))
    \/ DeleteExperience
    \/ CreateDiscovery(ValidStateIds, KindInputs, DiscoveryFields(PlainTexts))
    \/ UpdateDiscovery(ValidStateIds, KindInputs, DiscoveryFields(PlainTexts))
    \/ DeleteDiscovery
    \/ CreatePopup
    \/ UpdatePopup
    \/ DeletePopup

Spec == Init /\ [][Next]_vars

-----------------------------------------------------------------------------
(* Properties of the list endpoints, stated over the response in hand and  *)
(* the store it was computed from.                                         *)

ListOps == {"get_experiences", "get_discoveries", "get_msgs"}
PageReturned == resp.op \in ListOps /\ resp.auth.ok /\ resp.status = 200

\* The rows the request's filter admits.
Matching ==
    CASE resp.op = "get_experiences" -> {e \in experiences : e.state_id = 1}
      [] resp.op = "get_discoveries" ->
             {d \in discoveries : /\ d.state_id = 1
                                  /\ resp.args.all \/ d.kind_id = resp.args.category}
      [] resp.op = "get_msgs" -> popups

\* The starting offset, and the matching rows at or after it in id order.
Start == IF resp.args.cursor = None THEN 0 ELSE resp.args.cursor[1]
AtOrAfter == {r \in Matching : Cardinality({x \in Matching : x.id < r.id}) >= Start}
Rank(r) == Cardinality({x \in AtOrAfter : x.id <= r.id})
Items == resp.body.items

\* C1: a returned page holds at most limit items, and has_more is true
\* exactly when at least limit+1 rows satisfy the filter at or after the
\* starting offset.
C1_PageBound ==
    PageReturned =>
        /\ Len(Items) <= resp.args.limit
        /\ resp.body.has_more <=> Cardinality(AtOrAfter) >= resp.args.limit + 1

C1_Witness ==
    /\ PageReturned
    /\ resp.op = "get_experiences"
    /\ resp.args.cursor = Some(1)
    /\ resp.body.has_more
    /\ Len(Items) = resp.args.limit

\* C2: cursor_out of a returned page is the id of the last item of the
\* truncated page, which is the limit-th matching row in ascending id order
\* when more than limit rows were fetched.
C2_CursorOut ==
    PageReturned =>
        /\ Items # <<>>
        /\ resp.body.cursor = Some(Items[Len(Items)].id)
        /\ Items[Len(Items)] \in AtOrAfter
        /\ Rank(Items[Len(Items)]) = Len(Items)
        /\ resp.body.has_more => Len(Items) = resp.args.limit

\* Three matching discoveries, no cursor, limit 2: two items, has_more, and
\* the cursor is the id of the second.
C2_Witness ==
    /\ PageReturned
    /\ resp.op = "get_discoveries"
    /\ Cardinality(Matching) = 3
    /\ resp.args.cursor = None
    /\ resp.args.limit = 2
    /\ Len(Items) = 2
    /\ resp.body.has_more
    /\ resp.body.cursor = Some(Items[2].id)

\* C3: when a cursor is given to the experiences list, every experience
\* returned has an id greater than or equal to the cursor value.
C3_CursorFloor ==
    (PageReturned /\ resp.op = "get_experiences" /\ resp.args.cursor # None) =>
        \A i \in 1..Len(Items) : Items[i].id >= resp.args.cursor[1]

C3_Witness ==
    /\ PageReturned
    /\ resp.op = "get_experiences"
    /\ resp.args.cursor = Some(2)
    /\ Items # <<>>
    /\ Cardinality(experiences) = 3

-----------------------------------------------------------------------------
(* The account endpoints together with the guarded reads.                  *)

NextAccounts ==
    \/ Reply
    \/ AdminLogin
    \/ RegisterTourist(ValidStateIds, {"pw1"})
    \/ RegisterHost(ValidStateIds, {"pw1"})
    \/ SigninTourist
    \/ SigninHost
    \/ UpdateMyInfoTourist
    \/ UpdateMyInfoHost
    \/ DeleteMyAccountTourist
    \/ DeleteMyAccountHost
    \/ ListExperiences
    \/ ListDiscoveries
    \/ ListPopups
    \/ Authorize
    \/ GetMyDataTourist
    \/ GetMyDataHost

SpecAccounts == Init /\ [][NextAccounts]_vars

-----------------------------------------------------------------------------
(* The like toggle.  The store has been populated by earlier requests:     *)
(* every tourist is registered, active and signed in; the experiences      *)
(* given exist.                                                            *)

Registrants == <<"a@x", "b@x", "c@x", "d@x">>

Populated(experience_ids) ==
    /\ tourists = {[id |-> i, email |-> Registrants[i],
                    password |-> hash_password("pw1"), state_id |-> 1] : i \in AccountIds}
    /\ hosts = {}
    /\ experiences = {[id |-> i, title |-> "a", state_id |-> IF i = 1 THEN 1 ELSE 2] :
                          i \in experience_ids}
    /\ discoveries = {}
    /\ popups = {}
    /\ seqs = [tourists |-> MaxAccounts, hosts |-> 0,
               experiences |-> Cardinality(experience_ids), discoveries |-> 0, popups |-> 0]
    /\ issued = {[role |-> Role(2), user_id |-> i] : i \in AccountIds}
    /\ last = NoLast
    /\ resp = NoResponse

InitLikes ==
    /\ Populated(1 .. MaxRows - 1)
    /\ likes = [pair \in AccountIds \X Ids |-> 0]
    /\ reqs = [w \in Workers |-> Idle]

NextLikes == Reply \/ ToggleLike

SpecLikes == InitLikes /\ [][NextLikes]_vars

InitConc ==
    /\ Populated({1})
    /\ likes = [pair \in AccountIds \X Ids |-> 0]
    /\ reqs = [w \in Workers |-> Idle]

NextConc ==
    \E w \in Workers :
        \/ BeginToggle(w)
        \/ CheckExperience(w)
        \/ CheckLike(w)
        \/ WriteLike(w)
        \/ EndToggle(w)

SpecConc == InitConc /\ [][NextConc]_vars

\* C6: two consecutive successful toggles of one pair, with no other write
\* between them, leave the like-state of the pair and the number of Like
\* rows as they were before the first.
C6_Involution ==
    last.n = 2 =>
        /\ (likes[last.pair] > 0) = last.liked
        /\ TotalLikes(likes) = last.rows

\* Both starting states: a pair toggled twice from liked while another row
\* exists, and a pair toggled twice from not liked.
C6_Witness ==
    /\ last.n = 2
    /\ last.liked
    /\ last.rows = 2
    /\ resp.op = "toggle_like"
    /\ resp.result = Some(TRUE)

-----------------------------------------------------------------------------
(* Two toggle requests of one tourist for one existing experience, both    *)
(* past the dependency, started while the pair has no Like row.            *)

Racers == {1, 2}

InitRace ==
    /\ Populated(1 .. MaxRows - 1)
    /\ \E me \in AccountIds, experience_id \in 1 .. MaxRows - 1 :
           /\ reqs = [w \in Workers |->
                         IF w \in Racers
                         THEN [Idle EXCEPT !.pc = "authorized", !.me = me,
                                           !.experience_id = experience_id]
                         ELSE Idle]
           /\ likes \in [AccountIds \X Ids -> {0, 1}]
           /\ likes[<<me, experience_id>>] = 0
           /\ \A pair \in DOMAIN likes : pair[2] = MaxRows => likes[pair] = 0

NextRace ==
    \E w \in Workers :
        \/ CheckExperience(w)
        \/ CheckLike(w)
        \/ WriteLike(w)

SpecRace == InitRace /\ [][NextRace]_vars

RacePair == <<reqs[1].me, reqs[1].experience_id>>
BothCompleted == \A w \in Racers : reqs[w].pc = "done"
ReportsTrue == {w \in Racers : reqs[w].result = Some(TRUE)}
ObservedAbsent == {w \in Racers : reqs[w].already_liked = None}

\* C5 as stated: after both calls have completed exactly one Like row
\* exists for the pair and at most one call reports true.
C5_ExactlyOneRow ==
    BothCompleted =>
        /\ likes[RacePair] = 1
        /\ Cardinality(ReportsTrue) <= 1

\* C5, amended: after both calls have completed at most one Like row exists
\* for the pair and at most one call reports true; the row exists exactly
\* when both calls observed the pair absent (the second insert is rejected
\* as a duplicate), and no row exists when the later call observed the row
\* of the earlier one and deleted it.
C5_AtMostOneRow ==
    BothCompleted =>
        /\ likes[RacePair] <= 1
        /\ Cardinality(ReportsTrue) <= 1
        /\ ObservedAbsent = Racers =>
               /\ likes[RacePair] = 1
               /\ \E w \in Racers : reqs[w].status = 400 /\ reqs[w].detail = DuplicateValue
        /\ ObservedAbsent # Racers =>
               /\ likes[RacePair] = 0
               /\ \E w \in Racers : reqs[w].result = Some(FALSE)

\* The later call found the row of the earlier one and removed it.
C5_Witness ==
    /\ BothCompleted
    /\ ObservedAbsent # Racers
    /\ Cardinality(ReportsTrue) = 1
    /\ likes[RacePair] = 0

-----------------------------------------------------------------------------
(* The role dependencies, over the account endpoints.                      *)

Variants == {"admin", "host_or_tourist", "any_of_three"}

allowed_roles(dep) ==
    CASE dep = "admin" -> {"Admin"}
      [] dep = "host_or_tourist" -> {"Host", "Tourist"}
      [] dep = "any_of_three" -> {"Admin", "Host", "Tourist"}

\* C9: each of the three variants grants exactly when the credential is
\* valid and its role is in the variant's allowed set; a valid credential
\* with another role is refused with 401 Unauthorized, an invalid one with
\* 401 InvalidCredential.
C9_GrantsAllowedRoles ==
    resp.dep \in Variants =>
        /\ resp.auth.ok <=> (resp.token.valid /\ resp.token.role \in allowed_roles(resp.dep))
        /\ (resp.token.valid /\ resp.token.role \notin allowed_roles(resp.dep)) =>
               (resp.auth.status = 401 /\ resp.auth.detail = "Unauthorized user.")
        /\ ~resp.token.valid =>
               (resp.auth.status = 401 /\ resp.auth.detail = "Incorrect token")

C9_Witness ==
    /\ resp.op = "authorize"
    /\ resp.dep = "host_or_tourist"
    /\ resp.token.valid
    /\ resp.token.role = "Admin"
    /\ resp.auth.status = 401
    /\ resp.auth.detail = "Unauthorized user."

\* The persisted record of the subject of a Host or Tourist credential.
Subject(token) ==
    IF token.role = "Tourist" THEN get_tourist_user(token.user_id)
    ELSE get_host_user(token.user_id)

\* C10: a request through the host-or-tourist or the any-of-three variant
\* whose credential carries the Host or Tourist role is denied with 404 when
\* the subject's record is absent and with 401 "deactivated" when its
\* state_id is not 1; no token of a deleted or deactivated account is granted.
C10_ResolvesSubject ==
    (/\ resp.dep \in {"host_or_tourist", "any_of_three"}
     /\ resp.token.valid
     /\ resp.token.role \in {"Host", "Tourist"}) =>
        /\ Subject(resp.token) = None =>
               (~resp.auth.ok /\ resp.auth.status = 404)
        /\ (Subject(resp.token) # None /\ Subject(resp.token)[1].state_id # 1) =>
               (~resp.auth.ok /\ resp.auth.status = 401
                /\ resp.auth.detail = "This user has been deactivated.")

-----------------------------------------------------------------------------
(* Creations, signups and updates with state ids the caller is free to     *)
(* send.                                                                   *)

NextState ==
    \/ Reply
    \/ AdminLogin
    \/ CreateExperience(StateIdInputs, ExperienceFields(PlainTexts))
    \/ UpdateExperience(StateIdInputs, ExperienceFields(PlainTexts))
    \/ CreateDiscovery(StateIdInputs, KindInputs, DiscoveryFields(PlainTexts))
    \/ UpdateDiscovery(StateIdInputs, KindInputs, DiscoveryFields(PlainTexts))
    \/ RegisterTourist(StateIdInputs, {"pw1"})
    \/ RegisterHost(StateIdInputs, {"pw1"})
    \/ SigninTourist
    \/ SigninHost
    \/ UpdateMyInfoTourist
    \/ UpdateMyInfoHost

SpecState == Init /\ [][NextState]_vars

CreateOps == {"register_tourist", "register_host", "create_experience", "create_discovery"}

\* C7: every create that takes a state_id answers a state_id outside {1, 2}
\* with 400 "state_id must be either 1 or 2." and leaves the store unchanged.
C7_RejectsInvalidState ==
    [][(/\ resp'.op \in CreateOps
        /\ resp'.auth.ok
        /\ resp'.args.state_id \notin {1, 2}) =>
           (/\ resp'.status = 400
            /\ resp'.detail = InvalidState
            /\ UNCHANGED <<accounts, content, likes>>)]_vars

\* C8: in every reachable state the state_id of every persisted tourist,
\* host, experience and discovery is 1 or 2.
C8_StateIdsValid ==
    \A row \in tourists \cup hosts \cup experiences \cup discoveries :
        row.state_id \in {1, 2}

-----------------------------------------------------------------------------
(* The per-role dependencies of the account endpoints.                     *)

\* What the dependency of a role owes a credential, the checks taken in the
\* order: credential, role, record, state.
Owed(token, role, rows) ==
    IF ~token.valid
    THEN [status |-> 401, detail |-> "Incorrect token", result |-> None]
    ELSE IF token.role # role
    THEN [status |-> 401, detail |-> "Unauthorized user.", result |-> None]
    ELSE IF ~\E row \in rows : row.id = token.user_id
    THEN [status |-> 404,
          detail |-> IF role = "Tourist" THEN "Tourist not found" ELSE "Host not found",
          result |-> None]
    ELSE LET row == CHOOSE r \in rows : r.id = token.user_id IN
         IF row.state_id # 1
         THEN [status |-> 401, detail |-> "This user has been deactivated.",
               result |-> None]
         ELSE [status |-> 200, detail |-> "", result |-> Some(row)]

Received == [status |-> resp.status, detail |-> resp.detail, result |-> resp.result]

\* C11: get_current_tourist and get_current_host return the identity only
\* for a valid credential of their role whose record exists with state_id 1,
\* and otherwise fail, in this order, with 401 invalid credential, 401
\* unauthorized, 404 not found, 401 deactivated.
C11_CurrentUserChecks ==
    /\ resp.op = "get_my_data_tourist" => Received = Owed(resp.token, "Tourist", tourists)
    /\ resp.op = "get_my_data_host" => Received = Owed(resp.token, "Host", hosts)

\* A tourist deactivated after signing in presents the token again.
C11_Witness ==
    /\ resp.op = "get_my_data_tourist"
    /\ resp.token.valid
    /\ resp.token.role = "Tourist"
    /\ resp.status = 401
    /\ resp.detail = "This user has been deactivated."
    /\ \E h \in hosts : h.state_id = 1

-----------------------------------------------------------------------------
(* The content endpoints called with credentials of every role: a tourist  *)
(* and a host have signed up and signed in, the administrator can log in.  *)

InitRoles ==
    /\ tourists = {[id |-> 1, email |-> Registrants[1],
                    password |-> hash_password("pw1"), state_id |-> 1]}
    /\ hosts = {[id |-> 1, email |-> Registrants[2],
                 password |-> hash_password("pw1"), state_id |-> 1]}
    /\ experiences = {}
    /\ discoveries = {}
    /\ popups = {}
    /\ likes = [pair \in AccountIds \X Ids |-> 0]
    /\ seqs = [tourists |-> 1, hosts |-> 1, experiences |-> 0,
               discoveries |-> 0, popups |-> 0]
    /\ issued = {[role |-> Role(2), user_id |-> 1], [role |-> Role(1), user_id |-> 1]}
    /\ reqs = [w \in Workers |-> Idle]
    /\ last = NoLast
    /\ resp = NoResponse

NextRoles ==
    \/ Reply
    \/ AdminLogin
    \/ CreateExperience(ValidStateIds, ExperienceFields(PlainTexts))
    \/ UpdateExperience(ValidStateIds, ExperienceFields(PlainTexts))
    \/ DeleteExperience
    \/ CreateDiscovery(ValidStateIds, KindInputs, DiscoveryFields(PlainTexts))
    \/ UpdateDiscovery(ValidStateIds, KindInputs, DiscoveryFields(PlainTexts))
    \/ DeleteDiscovery
    \/ CreatePopup
    \/ UpdatePopup
    \/ DeletePopup
    \/ ToggleLike
    \/ UpdateMyInfoTourist
    \/ UpdateMyInfoHost
    \/ DeleteMyAccountTourist
    \/ DeleteMyAccountHost

SpecRoles == InitRoles /\ [][NextRoles]_vars

\* C12: every step that changes the set or a field of the experiences, the
\* discoveries or the popup messages is a request carrying a valid Admin
\* credential; none carrying a Host, a Tourist or an invalid one does.
C12_AdminOnlyMutations ==
    [][content' # content => (resp'.token.valid /\ resp'.token.role = "Admin")]_vars

\* A host asks for a mutation while there is content to change, and is refused.
C12_Witness ==
    /\ resp.op \in {"update_experience", "delete_discovery", "create_popup"}
    /\ resp.token.valid
    /\ resp.token.role = "Host"
    /\ resp.status = 401
    /\ resp.detail = "Unauthorized user."
    /\ experiences \cup discoveries \cup popups # {}

-----------------------------------------------------------------------------
(* The four partial updates, with payloads whose fields may be empty.      *)

NextMerge ==
    \/ Reply
    \/ AdminLogin
    \/ CreateExperience(ValidStateIds, ExperienceFields(PlainTexts))
    \/ UpdateExperience(ValidStateIds, ExperienceFields(RichTexts))
    \/ CreateDiscovery(ValidStateIds, KindInputs, DiscoveryFields(PlainTexts))
    \/ UpdateDiscovery(ValidStateIds, KindInputs, DiscoveryFields(RichTexts))
    \/ UpdateMyInfoTourist
    \/ UpdateMyInfoHost

SpecMerge == InitRoles /\ [][NextMerge]_vars

Row(rows, id) == CHOOSE row \in rows : row.id = id
Has(rows, id) == \E row \in rows : row.id = id

\* An update request that reached the entity it names.
Updates(op, rows, id) == resp'.op = op /\ resp'.auth.ok /\ Has(rows, id)

\* C13: in the tourist, host, experience and discovery updates every field
\* whose payload value is falsy (empty string, zero or absent number, empty
\* list) holds the same persisted value after the update as before it.
C13_FalsyFieldsKept ==
    [][/\ Updates("update_tourist", tourists, resp'.token.user_id) =>
              LET old == Row(tourists, resp'.token.user_id)
                  new == Row(tourists', resp'.token.user_id)
              IN  /\ Has(tourists', old.id)
                  /\ resp'.args.new_email = "" => new.email = old.email
                  /\ resp'.args.new_state_id = None => new.state_id = old.state_id
       /\ Updates("update_host", hosts, resp'.token.user_id) =>
              LET old == Row(hosts, resp'.token.user_id)
                  new == Row(hosts', resp'.token.user_id)
              IN  /\ Has(hosts', old.id)
                  /\ resp'.args.new_email = "" => new.email = old.email
                  /\ resp'.args.new_state_id = None => new.state_id = old.state_id
       /\ Updates("update_experience", experiences, resp'.args.id) =>
              LET old == Row(experiences, resp'.args.id)
                  new == Row(experiences', resp'.args.id)
              IN  /\ Has(experiences', old.id)
                  /\ resp'.args.title = "" => new.title = old.title
                  /\ resp'.args.state_id = 0 => new.state_id = old.state_id
       /\ Updates("update_discovery", discoveries, resp'.args.id) =>
              LET old == Row(discoveries, resp'.args.id)
                  new == Row(discoveries', resp'.args.id)
              IN  /\ Has(discoveries', old.id)
                  /\ resp'.args.title = "" => new.title = old.title
                  /\ resp'.args.video_paths = <<>> => new.video_paths = old.video_paths
                  /\ resp'.args.address = "" => new.address = old.address
                  /\ resp'.args.state_id = 0 => new.state_id = old.state_id
                  /\ resp'.args.kind_id = 0 => new.kind_id = old.kind_id
      ]_vars

\* An experience was updated with an empty title and a state_id: the state
\* changed, the title is still there.
C13_Witness ==
    /\ resp.op = "update_experience"
    /\ resp.status = 200
    /\ resp.args.title = ""
    /\ resp.args.state_id = 2
    /\ Has(experiences, resp.args.id)
    /\ Row(experiences, resp.args.id).title = "a"
    /\ Row(experiences, resp.args.id).state_id = 2

\* An update request that was answered with success.
Updated(op, rows, id) == Updates(op, rows, id) /\ resp'.status = 200

\* C14: after a successful update the persisted entity holds the payload's
\* value for every field of the payload that is truthy; for a discovery
\* this includes title, video_paths, address, state_id and kind_id.
C14_TruthyFieldsApplied ==
    [][/\ Updated("update_tourist", tourists, resp'.token.user_id) =>
              LET new == Row(tourists', resp'.token.user_id)
              IN  /\ resp'.args.new_email # "" => new.email = resp'.args.new_email
                  /\ resp'.args.new_state_id # None =>
                         new.state_id = resp'.args.new_state_id[1]
       /\ Updated("update_host", hosts, resp'.token.user_id) =>
              LET new == Row(hosts', resp'.token.user_id)
              IN  /\ resp'.args.new_email # "" => new.email = resp'.args.new_email
                  /\ resp'.args.new_state_id # None =>
                         new.state_id = resp'.args.new_state_id[1]
       /\ Updated("update_experience", experiences, resp'.args.id) =>
              LET new == Row(experiences', resp'.args.id)
              IN  /\ resp'.args.title # "" => new.title = resp'.args.title
                  /\ resp'.args.state_id # 0 => new.state_id = resp'.args.state_id
       /\ Updated("update_discovery", discoveries, resp'.args.id) =>
              LET new == Row(discoveries', resp'.args.id)
              IN  /\ resp'.args.title # "" => new.title = resp'.args.title
                  /\ resp'.args.video_paths # <<>> =>
                         new.video_paths = resp'.args.video_paths
                  /\ resp'.args.address # "" => new.address = resp'.args.address
                  /\ resp'.args.state_id # 0 => new.state_id = resp'.args.state_id
                  /\ resp'.args.kind_id # 0 => new.kind_id = resp'.args.kind_id
      ]_vars

\* C15: the popup update never sets the text to empty: when the payload text
\* is the empty string the persisted text of the popup is the same after
\* the update as before it.
C15_PopupTextKept ==
    [][(Updates("update_popup", popups, resp'.args.id) /\ resp'.args.text = "") =>
           /\ Has(popups', resp'.args.id)
           /\ Row(popups', resp'.args.id).text = Row(popups, resp'.args.id).text]_vars


-----------------------------------------------------------------------------
(* C16: e-mails are unique within tourists and within hosts               *)

UniqueEmails(rows) == \A r1, r2 \in rows : r1.email = r2.email => r1 = r2

\* The request answered in this step asks for an e-mail that another record
\* of the same table already holds.
TakenByAnother(rows, id, email) == \E r \in rows : r.id # id /\ r.email = email

DuplicateSignup(op, rows) ==
    /\ resp'.op = op
    /\ resp'.args.state_id \in 0..2
    /\ TakenByAnother(rows, 0, resp'.args.email)

DuplicateUpdate(op, rows) ==
    /\ resp'.op = op
    /\ resp'.auth.ok
    /\ Has(rows, resp'.token.user_id)
    /\ resp'.args.new_email # ""
    /\ TakenByAnother(rows, resp'.token.user_id, resp'.args.new_email)

DuplicateRefused ==
    /\ resp'.status = 400
    /\ resp'.detail = DuplicateValue
    /\ UNCHANGED <<accounts, content, likes, seqs>>

\* C16: no two tourists and no two hosts ever share an e-mail, and a signup
\* or update_my_info that asks for an e-mail held by another record of the
\* same table answers HTTP 400 "Value already registered..." and leaves the
\* stored records as they were.
C16_EmailsUnique ==
    [][/\ UniqueEmails(tourists') /\ UniqueEmails(hosts')
       /\ (DuplicateSignup("register_tourist", tourists) => DuplicateRefused)
       /\ (DuplicateSignup("register_host", hosts) => DuplicateRefused)
       /\ (DuplicateUpdate("update_tourist", tourists) => DuplicateRefused)
       /\ (DuplicateUpdate("update_host", hosts) => DuplicateRefused)]_vars

C16_Witness ==
    /\ resp.op = "update_tourist"
    /\ resp.status = 400
    /\ resp.detail = DuplicateValue
    /\ Cardinality(tourists) = 2
    /\ TakenByAnother(tourists, resp.token.user_id, resp.args.new_email)


-----------------------------------------------------------------------------
(* C17: the discovery list's filter, and the domain of kind_id             *)

\* schemas.DiscoveryBase declares kind_id: int and no handler checks it.
KindIdInputs == {0, 1, 2, 5}

NextKinds ==
    \/ Reply
    \/ AdminLogin
    \/ ListDiscoveries
    \/ CreateDiscovery(ValidStateIds, KindIdInputs, DiscoveryFields(PlainTexts))
    \/ UpdateDiscovery(ValidStateIds, KindIdInputs, DiscoveryFields(PlainTexts))
    \/ DeleteDiscovery

SpecKinds == Init /\ [][NextKinds]_vars

SelectedKinds == IF resp.args.all THEN {1, 2, 3, 4} ELSE {resp.args.category}

ListedDiscoveriesSelected ==
    (PageReturned /\ resp.op = "get_discoveries") =>
        /\ \A i \in 1..Len(Items) : /\ Items[i] \in discoveries
                                    /\ Items[i].state_id = 1
                                    /\ Items[i].kind_id \in SelectedKinds
        /\ \A i, j \in 1..Len(Items) : i < j => Items[i].id < Items[j].id

KindIdsEnumerated == \A d \in discoveries : d.kind_id \in {1, 2, 3, 4}

\* C17: the discovery list returns only discoveries with state_id 1 and a
\* kind_id in the selected set ({category} when all is false, {1,2,3,4} when
\* all is true), in ascending id order; and every persisted discovery has a
\* kind_id in {1,2,3,4}.
C17_KindFilterAndDomain == ListedDiscoveriesSelected /\ KindIdsEnumerated


-----------------------------------------------------------------------------
(* C18: the distance endpoint                                              *)

Points == {"12.0 41.0", "12.0 42.0"}

NextDistance ==
    \/ Reply
    \/ AdminLogin
    \/ CreateDiscovery(ValidStateIds, KindInputs, DiscoveryFieldsAt(PlainTexts, Points))
    \/ UpdateDiscovery(ValidStateIds, KindInputs, DiscoveryFieldsAt(PlainTexts, Points))
    \/ DeleteDiscovery
    \/ Distance(Points)

SpecDistance == Init /\ [][NextDistance]_vars

DistanceAnswered == resp.op = "distance" /\ resp.auth.ok

C18_EmptyWitness == DistanceAnswered /\ discoveries = {} /\ resp.status = 404


-----------------------------------------------------------------------------
(* C19: signup, signin, get_current_tourist                                *)

\* Step 1: a signup with state_id 1 and an e-mail no tourist holds succeeds
\* and stores one new record with that e-mail, state_id 1 and a hash the
\* password verifies against.
SignupCreates ==
    (/\ resp'.op = "register_tourist"
     /\ resp'.args.state_id = 1
     /\ ~\E t \in tourists : t.email = resp'.args.email)
    => /\ resp'.status = 200
       /\ \E t \in tourists' :
              /\ tourists' = tourists \cup {t}
              /\ t \notin tourists
              /\ \A old \in tourists : old.id # t.id
              /\ t.email = resp'.args.email
              /\ t.state_id = 1
              /\ check_password(resp'.args.password, t.password)

\* Step 2: a signin with the e-mail of a stored record and the password its
\* hash verifies succeeds and issues a token naming that record as Tourist.
SigninIssues ==
    \A t \in tourists :
        (/\ resp'.op = "signin_tourist"
         /\ resp'.args.email = t.email
         /\ check_password(resp'.args.password, t.password))
        => /\ resp'.status = 200
           /\ resp'.token = create_jwt([user_id |-> t.id, role |-> Role(2)])
           /\ resp'.token \in Credentials'
           /\ UNCHANGED tourists

\* Step 3: get_current_tourist with an issued token of a stored record with
\* state_id 1 succeeds and returns that record.
CurrentTouristReturns ==
    \A t \in tourists :
        (/\ resp'.op = "get_my_data_tourist"
         /\ resp'.token = create_jwt([user_id |-> t.id, role |-> Role(2)])
         /\ t.state_id = 1)
        => /\ resp'.status = 200
           /\ resp'.result = Some(t)
           /\ resp'.result[1].state_id = 1

\* Between two requests nothing is written.
RepliesKeep == resp'.op = "none" => UNCHANGED <<accounts, issued>>

\* C19: from any state in which the e-mail is unused, a tourist signup with
\* state_id 1, then a signin with the same e-mail and the correct password,
\* then get_current_tourist with the issued token succeed at every step, and
\* the last returns the identity of the new record with state_id 1.
C19_SignupSigninCurrent ==
    [][SignupCreates /\ SigninIssues /\ CurrentTouristReturns /\ RepliesKeep]_vars

\* The end of the scenario for the second tourist: another tourist was
\* already registered when this one signed up.
C19_Witness ==
    /\ resp.op = "get_my_data_tourist"
    /\ resp.status = 200
    /\ resp.result # None
    /\ resp.result[1].id = 2
    /\ resp.result[1].state_id = 1
    /\ resp.token = create_jwt([user_id |-> 2, role |-> Role(2)])
    /\ Cardinality(tourists) = 2


-----------------------------------------------------------------------------
(* C20: delete_my_account                                                  *)

\* The supplied password is the one the stored hash was made from.
Verifies(password, row) == row.password = hash_password(password)

\* The like rows of the tourists other than user_id stay as they were.
OthersLikesKept(user_id) ==
    \A pair \in DOMAIN likes : pair[1] # user_id => likes'[pair] = likes[pair]

\* A record leaves a user table only through its owner's delete_my_account,
\* answered 200, with a password that verifies against the record's hash.
RemovedByOwner(op, role, old, new) ==
    \A row \in old :
        ~Has(new, row.id) =>
            /\ resp'.op = op
            /\ resp'.status = 200
            /\ resp'.token = create_jwt([user_id |-> row.id, role |-> role])
            /\ Verifies(resp'.args.password, row)

\* delete_my_account reached the handler: the caller is authenticated.
Deleting(op, old) == resp'.op = op /\ resp'.auth.ok /\ Has(old, resp'.token.user_id)

WrongPasswordKeeps(op, old) ==
    (/\ Deleting(op, old)
     /\ ~Verifies(resp'.args.password, Row(old, resp'.token.user_id)))
    => /\ resp'.status = 401
       /\ resp'.detail = "Invalid password."
       /\ UNCHANGED <<accounts, content, likes, seqs, issued>>

RemovesOnlyCaller(op, old, new, other) ==
    (Deleting(op, old) /\ resp'.status = 200)
    => /\ new = old \ {Row(old, resp'.token.user_id)}
       /\ UNCHANGED <<other, content, seqs, issued>>
       /\ IF op = "delete_tourist" THEN OthersLikesKept(resp'.token.user_id)
          ELSE UNCHANGED likes

\* C20: a tourist or host account is removed by delete_my_account only
\* after the supplied password verifies against the stored hash of the
\* authenticated account; with a wrong password the call answers 401 and
\* the account and every other record are unchanged; a successful call
\* removes exactly the caller's own record.
C20_DeleteAfterPassword ==
    [][/\ RemovedByOwner("delete_tourist", Role(2), tourists, tourists')
       /\ RemovedByOwner("delete_host", Role(1), hosts, hosts')
       /\ WrongPasswordKeeps("delete_tourist", tourists)
       /\ WrongPasswordKeeps("delete_host", hosts)
       /\ RemovesOnlyCaller("delete_tourist", tourists, tourists', hosts)
       /\ RemovesOnlyCaller("delete_host", hosts, hosts', tourists)]_vars

\* One of two tourists has deleted their account; the other is still there.
C20_Witness ==
    /\ resp.op = "delete_tourist"
    /\ resp.status = 200
    /\ seqs.tourists = 2
    /\ Cardinality(tourists) = 1
    /\ ~Has(tourists, resp.token.user_id)

C20_WrongPasswordWitness ==
    /\ resp.op = "delete_host"
    /\ resp.status = 401
    /\ resp.detail = "Invalid password."
    /\ Has(hosts, resp.token.user_id)


-----------------------------------------------------------------------------
(* C21, C22: the coordinate codec                                          *)

CoordinateTexts == {"12.5 41.9", "12.50  41.90", "12.0 41.0"}

\* The discovery table as the service may find it: empty, or holding one
\* row whose geography column was never written through the API.
StoredGeometries == {NULL, POINT_EMPTY, POINT("12.0 42.0")}

Unwritten(g) ==
    [id |-> 1, title |-> "a", video_paths |-> <<"a">>, coordinate_gps |-> g,
     address |-> "a", state_id |-> 1, kind_id |-> 1]

InitCodec ==
    /\ tourists = {}
    /\ hosts = {}
    /\ experiences = {}
    /\ popups = {}
    /\ discoveries \in {{}} \cup {{Unwritten(g)} : g \in StoredGeometries}
    /\ seqs = [tourists |-> 0, hosts |-> 0, experiences |-> 0,
               discoveries |-> Cardinality(discoveries), popups |-> 0]
    /\ likes = [pair \in AccountIds \X Ids |-> 0]
    /\ issued = {}
    /\ reqs = [w \in Workers |-> Idle]
    /\ last = NoLast
    /\ resp = NoResponse

NextCodec ==
    \/ Reply
    \/ AdminLogin
    \/ CreateDiscovery({1}, {1}, DiscoveryFieldsAt(PlainTexts, CoordinateTexts))
    \/ UpdateDiscovery({1}, {1}, DiscoveryFieldsAt(PlainTexts, CoordinateTexts \cup {""}))
    \/ DeleteDiscovery
    \/ GetDiscovery

SpecCodec == InitCodec /\ [][NextCodec]_vars

\* encode: create and update store the text wrapped as a point literal.
Encoded ==
    /\ (resp'.op = "create_discovery" /\ resp'.status = 200) =>
           \E d \in discoveries' \ discoveries :
               d.coordinate_gps = POINT(resp'.args.coordinate_gps)
    /\ (resp'.op = "update_discovery" /\ resp'.status = 200
        /\ resp'.args.coordinate_gps # "") =>
           Row(discoveries', resp'.args.id).coordinate_gps =
               POINT(resp'.args.coordinate_gps)

\* decode: reading a discovery whose stored point was encoded from the text
\* p returns a plain pair that names the same point as p.
Decoded ==
    \A p \in CoordinateTexts :
        (/\ resp.op = "get_discovery"
         /\ resp.auth.ok
         /\ Has(discoveries, resp.args.id)
         /\ Row(discoveries, resp.args.id).coordinate_gps = POINT(p))
        => /\ resp.status = 200
           /\ resp.result # None
           /\ resp.result[1].id = resp.args.id
           /\ ParsePoint(resp.result[1].coordinate_gps) = ParsePoint(p)
           /\ ParsePoint(p) # <<>>

\* C21: round trip of the coordinate codec: creating (or updating) a
\* discovery with the coordinate text p and reading it back yields a
\* coordinate text that equals p up to blanks and trailing zeros, that is,
\* both texts name the same point.
C21_CodecRoundTrip == [][Encoded /\ Decoded']_vars

\* "12.0 41.0" was created through the API and is read back as "12 41".
C21_Witness ==
    /\ resp.op = "get_discovery"
    /\ resp.status = 200
    /\ Has(discoveries, resp.args.id)
    /\ Row(discoveries, resp.args.id).coordinate_gps = POINT("12.0 41.0")
    /\ resp.result[1].coordinate_gps = "12 41"

\* The stored geometry of the discovery read cannot be turned into a text.
Unparseable ==
    /\ resp.op = "get_discovery"
    /\ resp.auth.ok
    /\ Has(discoveries, resp.args.id)
    /\ ewkb_to_wkt(geography_out(Row(discoveries, resp.args.id).coordinate_gps)) = None

\* C22: decoding a stored geometry that cannot be parsed fails silently:
\* the read of the discovery completes (200) and carries the empty
\* coordinate.
C22_DecodeFailsSilently ==
    Unparseable => /\ resp.status = 200
                   /\ resp.result # None
                   /\ resp.result[1].coordinate_gps = ""


-----------------------------------------------------------------------------
(* The session of a request (database.get_db) and the except clauses of    *)
(* crud.py.  reqs[w] is the request worker w serves: where get_db stands,  *)
(* the state of its session, the persistence error raised in it, if any,   *)
(* and whether the session was rolled back after the error.                *)

NoSession == [pc |-> "idle", db |-> "none", error |-> None, rolled_back |-> FALSE]

\* The functions of crud.py.
CrudOps ==
    {"update", "get_tourist_user", "get_tourist_user_by_email", "create_tourist_user",
     "delete_tourist", "get_host_user", "get_host_user_by_email", "create_host_user",
     "delete_host", "get_experience", "get_experiences", "create_experience",
     "delete_experience", "get_discovery", "get_discoveries", "create_discovery",
     "delete_discovery", "distance_from_discoveries", "get_like", "get_likes",
     "create_like", "delete_like", "get_single_popup", "get_popup_msg",
     "create_popup_msg", "delete_popup_msg"}

\* Errors the session raises; every one is an SQLAlchemyError.
PersistenceErrors == {UniqueViolation, "IntegrityError", "NoResultFound", "OperationalError"}

\* The errors the except clause of a crud function names.
excepts(op) ==
    IF op = "get_experience" THEN {"NoResultFound"} ELSE PersistenceErrors

\* A crud function in which the session raises error: the except clause
\* hands it to CustomExceptionsClass.handle, which rolls back first; the
\* clause of get_experience raises it again as it is; an error no clause
\* names leaves the function untouched.
crud_raises(op, error) ==
    IF error \in excepts(op) /\ op # "get_experience"
    THEN [rolled_back |-> TRUE, response |-> handle(error)]
    ELSE [rolled_back |-> FALSE, response |-> Failed(500, error)]

AllIdle == \A w \in Workers : reqs[w].pc = "idle"

\* get_db up to its yield: db = SessionLocal(); yield db
Acquire(w) ==
    /\ Ready
    /\ AllIdle
    /\ reqs' = [reqs EXCEPT ![w] = [NoSession EXCEPT !.pc = "yielded", !.db = "open"]]
    /\ UNCHANGED <<accounts, content, likes, seqs, issued, last, resp>>

\* The endpoint runs with the session it was given.
Serve(w, request) ==
    /\ reqs[w].pc = "yielded"
    /\ reqs[w].db = "open"
    /\ request

\* The endpoint calls a crud function and the session raises in it.
RaiseIn(w) ==
    /\ Ready
    /\ reqs[w].pc = "yielded"
    /\ reqs[w].db = "open"
    /\ \E op \in CrudOps, error \in PersistenceErrors :
           LET raised == crud_raises(op, error) IN
           /\ resp' = Answer(op, "none", NoToken, Granted, [error |-> error],
                             raised.response)
           /\ reqs' = [reqs EXCEPT ![w].error = Some(error),
                                   ![w].rolled_back = raised.rolled_back]
    /\ UNCHANGED <<accounts, content, likes, seqs, issued, last>>

\* get_db closing the session only when the endpoint answered 200.
Close_unless_failed(w) ==
    /\ ~Ready
    /\ resp.status = 200
    /\ reqs[w].pc = "yielded"
    /\ reqs' = [reqs EXCEPT ![w].pc = "closed", ![w].db = "closed"]
    /\ UNCHANGED <<accounts, content, likes, seqs, issued, last, resp>>

\* get_db after its yield: finally: db.close(), whatever the endpoint did.
Close(w) ==
    /\ ~Ready
    /\ reqs[w].pc = "yielded"
    /\ reqs' = [reqs EXCEPT ![w].pc = "closed", ![w].db = "closed"]
    /\ UNCHANGED <<accounts, content, likes, seqs, issued, last, resp>>

\* The response leaves and the worker is free again.
Respond(w) ==
    /\ ~Ready
    /\ reqs[w].pc = "closed"
    /\ resp' = NoResponse
    /\ reqs' = [reqs EXCEPT ![w] = NoSession]
    /\ UNCHANGED <<accounts, content, likes, seqs, issued, last>>

InitSession ==
    /\ tourists = {}
    /\ hosts = {}
    /\ experiences = {}
    /\ discoveries = {}
    /\ popups = {}
    /\ likes = [pair \in AccountIds \X Ids |-> 0]
    /\ seqs = [tourists |-> 0, hosts |-> 0, experiences |-> 0,
               discoveries |-> 0, popups |-> 0]
    /\ issued = {}
    /\ reqs = [w \in Workers |-> NoSession]
    /\ last = NoLast
    /\ resp = NoResponse

NextSession ==
    \/ \E w \in Workers : Acquire(w)
    \/ \E w \in Workers : Serve(w, RegisterTourist(ValidStateIds, {"pw1"}))
    \/ \E w \in Workers : Serve(w, SigninTourist)
    \/ \E w \in Workers : Serve(w, GetMyDataTourist)
    \/ \E w \in Workers : RaiseIn(w)
    \/ \E w \in Workers : Close(w)
    \/ \E w \in Workers : Respond(w)

SpecSession == InitSession /\ [][NextSession]_vars

\* C23: every persistence error raised inside a crud operation, reads
\* included, is followed by a rollback of the request's session before the
\* error is raised again or translated.
C23_ErrorsRollBack ==
    \A w \in Workers : reqs[w].error # None => reqs[w].rolled_back


-----------------------------------------------------------------------------
(* C24: the lists answer 404 exactly on an empty selection                 *)

ListAnswered == resp.op \in ListOps /\ resp.auth.ok

NotFoundIffEmpty ==
    ListAnswered =>
        /\ resp.status \in {200, 404}
        /\ resp.status = 404 <=> AtOrAfter = {}
        /\ resp.status = 404 => resp.body = NoPage

\* C24: a list operation fails with 404 exactly when no row satisfies the
\* filter at or after the given offset (a cursor beyond the last matching
\* row included), and a list operation modifies nothing.
C24_NotFoundIffEmpty ==
    [][/\ NotFoundIffEmpty'
       /\ resp'.op \in ListOps => UNCHANGED <<accounts, content, likes, seqs, issued>>]_vars

\* Two rows match and the cursor points past both.
C24_Witness ==
    /\ ListAnswered
    /\ resp.status = 404
    /\ Cardinality(Matching) = 2
    /\ resp.args.cursor = Some(2)


-----------------------------------------------------------------------------
(* C25: update and delete of a missing experience, discovery or popup      *)

\* The 404 each endpoint raises in the else branch of its existence check.
MissingDetail(op) ==
    CASE op = "update_experience" -> "Experience not found"
      [] op = "delete_experience" -> "No experience found with id"
      [] op = "update_discovery" -> "Discovery not found"
      [] op = "delete_discovery" -> "No discovery found with id"
      [] op = "update_popup" -> "Popup message not found"
      [] op = "delete_popup" -> "No popup messages found."

Missing(ops, rows) == resp'.op \in ops /\ resp'.auth.ok /\ ~Has(rows, resp'.args.id)

MissingRefused ==
    /\ resp'.status = 404
    /\ resp'.detail = MissingDetail(resp'.op)
    /\ UNCHANGED <<accounts, content, likes, seqs, issued>>

\* C25: deleting or updating an experience, discovery or popup by an id
\* that does not exist fails with 404 at the endpoint's existence check and
\* leaves the store unchanged: nothing is deleted or committed.
C25_MissingIdRefused ==
    [][/\ Missing({"update_experience", "delete_experience"}, experiences) => MissingRefused
       /\ Missing({"update_discovery", "delete_discovery"}, discoveries) => MissingRefused
       /\ Missing({"update_popup", "delete_popup"}, popups) => MissingRefused]_vars

\* A delete for an id that is not there, while another discovery is.
C25_Witness ==
    /\ resp.op = "delete_discovery"
    /\ resp.status = 404
    /\ discoveries # {}
    /\ ~Has(discoveries, resp.args.id)


-----------------------------------------------------------------------------
(* C26: the session is always closed                                       *)

\* An endpoint that has been given its session runs to its end, and the
\* framework then resumes get_db and sends the response.
Handled(w) ==
    \/ Serve(w, RegisterTourist(ValidStateIds, {"pw1"}))
    \/ Serve(w, SigninTourist)
    \/ Serve(w, GetMyDataTourist)
    \/ RaiseIn(w)

FairSession ==
    \A w \in Workers :
        /\ WF_vars(Handled(w))
        /\ WF_vars(Close(w))
        /\ WF_vars(Respond(w))

SpecSessionFair == InitSession /\ [][NextSession]_vars /\ FairSession

\* A step in which an endpoint or a crud function ran.
Worked == (resp' # resp /\ resp'.op # "none") \/ accounts' # accounts \/ issued' # issued

UsedWhileOpen ==
    /\ Worked => \E w \in Workers : reqs[w].db = "open"
    /\ \A w \in Workers : reqs[w].db = "closed" => reqs'[w].db \in {"closed", "none"}

\* C26: every request that acquires a session eventually closes it, whether
\* the request succeeds or fails with any error, and a session is never
\* used after it was closed.
C26_SessionReleased ==
    /\ \A w \in Workers : (reqs[w].db = "open") ~> (reqs[w].db = "closed")
    /\ [][UsedWhileOpen]_vars

\* A request in which the session raised has had its session closed.
C26_Witness ==
    \E w \in Workers :
        /\ reqs[w].pc = "closed"
        /\ reqs[w].db = "closed"
        /\ reqs[w].error # None
        /\ resp.status = 500


-----------------------------------------------------------------------------
(* C27: toggle_like, one request at a time                                 *)

Toggling == resp'.op = "toggle_like" /\ resp'.auth.ok
OwnPair == <<resp'.token.user_id, resp'.args.experience_id>>

ToggleMissing ==
    (Toggling /\ ~Has(experiences, resp'.args.experience_id))
    => /\ resp'.status = 404
       /\ resp'.result = None
       /\ likes' = likes

ToggleExisting ==
    (Toggling /\ Has(experiences, resp'.args.experience_id))
    => /\ resp'.status = 200
       /\ resp'.result = Some(likes'[OwnPair] > 0)
       /\ likes'[OwnPair] = IF likes[OwnPair] > 0 THEN 0 ELSE 1
       /\ \A pair \in DOMAIN likes : pair # OwnPair => likes'[pair] = likes[pair]

\* C27: toggle_like for an experience id that does not exist fails with 404
\* and leaves the Like rows unchanged; for an existing experience the
\* boolean returned is the like-state of the (tourist, experience) pair
\* after the call, and only the caller's own row for that experience is
\* created or removed.
C27_ToggleLikeOutcome == [][ToggleMissing /\ ToggleExisting]_vars

\* The caller removes a like while the other tourist's like of the same
\* experience stays.
C27_Witness ==
    /\ resp.op = "toggle_like"
    /\ resp.status = 200
    /\ resp.result = Some(FALSE)
    /\ likes[<<resp.token.user_id, resp.args.experience_id>>] = 0
    /\ \E other \in AccountIds :
           /\ other # resp.token.user_id
           /\ likes[<<other, resp.args.experience_id>>] = 1

C27_MissingWitness ==
    /\ resp.op = "toggle_like"
    /\ resp.status = 404
    /\ TotalLikes(likes) > 0

-----------------------------------------------------------------------------
(* Accounts over their whole life: registration, signin, the operations    *)
(* on one's own account and on one's likes.  One experience exists.        *)

InitPasswords ==
    /\ tourists = {}
    /\ hosts = {}
    /\ experiences = {[id |-> 1, title |-> "a", state_id |-> 1]}
    /\ discoveries = {}
    /\ popups = {}
    /\ likes = [pair \in AccountIds \X Ids |-> 0]
    /\ seqs = [tourists |-> 0, hosts |-> 0, experiences |-> 1,
               discoveries |-> 0, popups |-> 0]
    /\ issued = {}
    /\ reqs = [w \in Workers |-> Idle]
    /\ last = NoLast
    /\ resp = NoResponse

NextPasswords ==
    \/ Reply
    \/ RegisterTourist(ValidStateIds, {"pw1"})
    \/ RegisterHost(ValidStateIds, {"pw1"})
    \/ SigninTourist
    \/ SigninHost
    \/ GetMyDataTourist
    \/ GetMyDataHost
    \/ UpdateMyInfoTourist
    \/ UpdateMyInfoHost
    \/ UpdateMyPasswordTourist
    \/ UpdateMyPasswordHost
    \/ DeleteMyAccountTourist
    \/ DeleteMyAccountHost
    \/ GetMyLikesList
    \/ ToggleLike

SpecPasswords == InitPasswords /\ [][NextPasswords]_vars

\* The operations guarded by get_current_tourist and by get_current_host.
GatedTourist == {"get_my_data_tourist", "update_tourist", "update_password_tourist",
                 "delete_tourist", "likes_list", "toggle_like"}
GatedHost == {"get_my_data_host", "update_host", "update_password_host", "delete_host"}

Deactivated(rows, id) == \E row \in rows : row.id = id /\ row.state_id = 2

\* A deactivated record is still there, deactivated, or it is gone.
StaysDeactivated(rows, rows_after) ==
    \A row \in rows :
        row.state_id = 2 =>
            \A after \in rows_after : after.id = row.id => after.state_id = 2

\* The answer to a gated operation called with the token of a deactivated
\* account of that role.
DeactivatedRefused(ops, role, rows) ==
    (/\ resp'.op \in ops
     /\ resp'.token.valid
     /\ resp'.token.role = role
     /\ Deactivated(rows, resp'.token.user_id))
    => /\ resp'.status = 401
       /\ resp'.detail = "This user has been deactivated."
       /\ UNCHANGED <<accounts, content, likes, seqs, issued>>

\* Signin with the password of a deactivated account.
DeactivatedSignsIn(op, role, rows) ==
    (/\ resp'.op = op
     /\ \E row \in rows : /\ row.email = resp'.args.email
                          /\ row.state_id = 2
                          /\ Verifies(resp'.args.password, row))
    => /\ resp'.status = 200
       /\ resp'.token.valid
       /\ resp'.token.role = role
       /\ Deactivated(rows, resp'.token.user_id)
       /\ [role |-> role, user_id |-> resp'.token.user_id] \in issued'

\* C28: a tourist or host record with state_id 2 never gets state_id 1
\* again; every operation guarded by get_current_tourist / get_current_host
\* and called with that account's token answers 401 "This user has been
\* deactivated." and changes nothing; signin with that account's password
\* still issues a token.
C28_DeactivationAbsorbing ==
    [][/\ StaysDeactivated(tourists, tourists')
       /\ StaysDeactivated(hosts, hosts')
       /\ DeactivatedRefused(GatedTourist, Role(2), tourists)
       /\ DeactivatedRefused(GatedHost, Role(1), hosts)
       /\ DeactivatedSignsIn("signin_tourist", Role(2), tourists)
       /\ DeactivatedSignsIn("signin_host", Role(1), hosts)]_vars

\* A deactivated tourist is refused a password update, and a deactivated
\* host holds a token.
C28_Witness ==
    /\ resp.op = "update_password_tourist"
    /\ resp.status = 401
    /\ resp.detail = "This user has been deactivated."
    /\ Deactivated(tourists, resp.token.user_id)
    /\ \E h \in hosts : h.state_id = 2 /\ [role |-> Role(1), user_id |-> h.id] \in issued

\* A granted password update of the caller's record in rows.
PasswordUpdate(op, rows, row) ==
    /\ resp'.op = op
    /\ resp'.auth.ok
    /\ row \in rows
    /\ row.id = resp'.token.user_id

\* The stored password of a record changes only by a password update of
\* its owner whose old password verifies and differs from the new one.
ChangesOnlyWhenVerified(op, rows, rows_after) ==
    \A row \in rows, after \in rows_after :
        (row.id = after.id /\ row.password # after.password) =>
            /\ PasswordUpdate(op, rows, row)
            /\ resp'.args.old_password # resp'.args.new_password
            /\ Verifies(resp'.args.old_password, row)
            /\ Verifies(resp'.args.new_password, after)

\* A wrong old password, or an old password equal to the new one: an error
\* outcome, and the store as it was.
RejectedUpdate(op, rows) ==
    \A row \in rows :
        (/\ PasswordUpdate(op, rows, row)
         /\ \/ ~Verifies(resp'.args.old_password, row)
            \/ resp'.args.old_password = resp'.args.new_password)
        => /\ resp'.status >= 400
           /\ UNCHANGED <<accounts, content, likes, seqs, issued>>

SucceededUpdate(op, rows, row) ==
    /\ PasswordUpdate(op, rows, row)
    /\ resp'.status = 200
    /\ resp'.args.old_password # resp'.args.new_password

\* C29: for tourists and hosts, the stored password changes only when
\* old_password differs from new_password and verifies against the stored
\* hash; after a successful update signin with the new password succeeds
\* and signin with the old one fails; a wrong old_password, or one equal to
\* new_password, leaves the store unchanged and is answered with an error.
C29_PasswordUpdate ==
    [][/\ ChangesOnlyWhenVerified("update_password_tourist", tourists, tourists')
       /\ ChangesOnlyWhenVerified("update_password_host", hosts, hosts')
       /\ RejectedUpdate("update_password_tourist", tourists)
       /\ RejectedUpdate("update_password_host", hosts)
       /\ \A row \in tourists, old_password \in Passwords, new_password \in Passwords :
              (/\ SucceededUpdate("update_password_tourist", tourists, row)
               /\ resp'.args = [old_password |-> old_password,
                                new_password |-> new_password])
              => /\ authenticate_tourist(row.email, new_password)'.id = Some(row.id)
                 /\ authenticate_tourist(row.email, old_password)'.id = None
       /\ \A row \in hosts, old_password \in Passwords, new_password \in Passwords :
              (/\ SucceededUpdate("update_password_host", hosts, row)
               /\ resp'.args = [old_password |-> old_password,
                                new_password |-> new_password])
              => /\ authenticate_host(row.email, new_password)'.id = Some(row.id)
                 /\ authenticate_host(row.email, old_password)'.id = None]_vars

\* The records of a table that a signin request names and whose stored
\* hash its password verifies against.
Named(rows, args) == {row \in rows : row.email = args.email}
Entitled(rows, args) == {row \in Named(rows, args) : Verifies(args.password, row)}

SigninAnswer(op, role, rows) ==
    resp'.op = op =>
        /\ UNCHANGED <<accounts, content, likes, seqs>>
        /\ IF Entitled(rows, resp'.args) # {}
           THEN /\ resp'.status = 200
                /\ resp'.token.valid
                /\ resp'.token.role = role
                /\ resp'.token.role # Role(0)
                /\ \E row \in Entitled(rows, resp'.args) :
                       resp'.token.user_id = row.id
                /\ issued' = issued \cup {[user_id |-> resp'.token.user_id, role |-> role]}
           ELSE /\ resp'.status = IF Named(rows, resp'.args) = {} THEN 404 ELSE 401
                /\ ~resp'.token.valid
                /\ issued' = issued

\* C30: signin of a tourist or host issues a token only for an email of a
\* record of that role's table with a password that verifies against the
\* stored hash; the token carries that record's id and the role of the
\* table, never Admin; an unknown email is answered 404, a wrong password
\* 401; signin leaves the store as it was.
C30_SigninIssuesForOwner ==
    [][/\ SigninAnswer("signin_tourist", Role(2), tourists)
       /\ SigninAnswer("signin_host", Role(1), hosts)
       /\ issued' # issued => resp'.op \in {"signin_tourist", "signin_host"}]_vars

\* A host who changed the password signs in with the new one.
C30_Witness ==
    /\ resp.op = "signin_host"
    /\ resp.status = 200
    /\ resp.token.role = Role(1)
    /\ resp.args.password = "pw2"
    /\ \E h \in hosts : h.id = resp.token.user_id /\ h.email = resp.args.email

\* A tourist is refused with a wrong password while a host of the same
\* email exists.
C30_RefusedWitness ==
    /\ resp.op = "signin_tourist"
    /\ resp.status = 401
    /\ Named(hosts, resp.args) # {}

====
